---- MODULE Spec2Model ----
(***************************************************************************)
(* A model of the expression engine of timecalc.py (class                  *)
(* AdvancedTimeCalculator): parse_and_calculate and everything it calls.   *)
(*                                                                         *)
(* Text is a sequence of one-character strings.  A datetime is the triple  *)
(* (d, s, us): d days after 1900-01-01, s seconds after midnight and us    *)
(* microseconds; a timedelta is the normalised triple that Python keeps    *)
(* (timedelta.days, timedelta.seconds, timedelta.microseconds).  A float   *)
(* is the exact rational num/den, so a product or a quotient is rounded    *)
(* once, to the microsecond, ties to even, as timedelta rounds.            *)
(***************************************************************************)
EXTENDS Integers, Sequences, FiniteSets, TLC

(***************************************************************************)
(* Characters                                                              *)
(***************************************************************************)
Digits == {"0", "1", "2", "3", "4", "5", "6", "7", "8", "9"}

LowerLetters == {"a", "b", "c", "d", "e", "f", "g", "h", "i", "j", "k", "l", "m",
                 "n", "o", "p", "q", "r", "s", "t", "u", "v", "w", "x", "y", "z"}

UpperLetters == {"A", "B", "C", "D", "E", "F", "G", "H", "I", "J", "K", "L", "M",
                 "N", "O", "P", "Q", "R", "S", "T", "U", "V", "W", "X", "Y", "Z"}

Letters == LowerLetters \cup UpperLetters

\* \s of the re module, on the characters an expression can hold
Whitespace == {" ", "\n", "\r", "\t"}

\* \w of the re module
WordChars == Digits \cup Letters \cup {"_"}

Punctuation == {":", "-", "/", ".", "+", "*", "@", "%", ",", "(", ")", ">", "{", "}"}

AnyChar == Digits \cup Letters \cup Whitespace \cup Punctuation \cup {"_"}

ToLowerChar(c) ==
    CASE c = "A" -> "a" [] c = "B" -> "b" [] c = "C" -> "c" [] c = "D" -> "d"
      [] c = "E" -> "e" [] c = "F" -> "f" [] c = "G" -> "g" [] c = "H" -> "h"
      [] c = "I" -> "i" [] c = "J" -> "j" [] c = "K" -> "k" [] c = "L" -> "l"
      [] c = "M" -> "m" [] c = "N" -> "n" [] c = "O" -> "o" [] c = "P" -> "p"
      [] c = "Q" -> "q" [] c = "R" -> "r" [] c = "S" -> "s" [] c = "T" -> "t"
      [] c = "U" -> "u" [] c = "V" -> "v" [] c = "W" -> "w" [] c = "X" -> "x"
      [] c = "Y" -> "y" [] c = "Z" -> "z" [] OTHER -> c

\* str.lower()
Lower(s) == [k \in 1..Len(s) |-> ToLowerChar(s[k])]

DigitVal(c) ==
    CASE c = "0" -> 0 [] c = "1" -> 1 [] c = "2" -> 2 [] c = "3" -> 3 [] c = "4" -> 4
      [] c = "5" -> 5 [] c = "6" -> 6 [] c = "7" -> 7 [] c = "8" -> 8 [] c = "9" -> 9

DigitChar(n) ==
    CASE n = 0 -> "0" [] n = 1 -> "1" [] n = 2 -> "2" [] n = 3 -> "3" [] n = 4 -> "4"
      [] n = 5 -> "5" [] n = 6 -> "6" [] n = 7 -> "7" [] n = 8 -> "8" [] n = 9 -> "9"

\* int() of a run of digits
RECURSIVE DigitsVal(_)
DigitsVal(s) ==
    IF s = <<>> THEN 0
    ELSE 10 * DigitsVal(SubSeq(s, 1, Len(s) - 1)) + DigitVal(s[Len(s)])

RECURSIVE Pow10(_)
Pow10(n) == IF n = 0 THEN 1 ELSE 10 * Pow10(n - 1)

\* str.strip()
RECURSIVE LStrip(_)
LStrip(s) ==
    IF s # <<>> /\ s[1] \in Whitespace THEN LStrip(Tail(s)) ELSE s

RECURSIVE RStrip(_)
RStrip(s) ==
    IF s # <<>> /\ s[Len(s)] \in Whitespace THEN RStrip(SubSeq(s, 1, Len(s) - 1)) ELSE s

Strip(s) == LStrip(RStrip(s))

\* s[i:j] with 1-based i and exclusive j
Slice(s, i, j) == SubSeq(s, i, j - 1)

\* str.find(sub) != -1
Contains(s, sub) ==
    \E i \in 1..(Len(s) - Len(sub) + 1) : SubSeq(s, i, i + Len(sub) - 1) = sub

(***************************************************************************)
(* Regular expressions of the re module, as syntax trees.  Ends(r, s, i)   *)
(* is the set of positions j such that r matches s[i..j-1].                *)
(***************************************************************************)
Unbounded == 0 - 1

Chr(S) == <<"chr", S>>
Cat(rs) == <<"cat", rs>>
Alt(rs) == <<"alt", rs>>
Rep(r, lo, hi) == <<"rep", r, lo, hi>>
Opt(r) == Rep(r, 0, 1)
Star(r) == Rep(r, 0, Unbounded)
Plus(r) == Rep(r, 1, Unbounded)
Bol == <<"bol">>
Eol == <<"eol">>
WordBoundary == <<"wordb">>
NotAhead(r) == <<"nla", r>>

\* a literal string
Lit(t) == Cat([k \in 1..Len(t) |-> Chr({t[k]})])

\* a literal string under re.IGNORECASE
LitI(t) == Cat([k \in 1..Len(t) |-> Chr({c \in AnyChar : ToLowerChar(c) = ToLowerChar(t[k])})])

\* a character class under re.IGNORECASE
ClassI(S) == Chr({c \in AnyChar : \E x \in S : ToLowerChar(c) = ToLowerChar(x)})

IsWordAt(s, i) == i >= 1 /\ i <= Len(s) /\ s[i] \in WordChars

RECURSIVE Ends(_, _, _)
RECURSIVE CatEnds(_, _, _, _)
RECURSIVE RepEnds(_, _, _, _, _, _, _)

Ends(r, s, i) ==
    CASE r[1] = "chr" -> IF i <= Len(s) /\ s[i] \in r[2] THEN {i + 1} ELSE {}
      [] r[1] = "cat" -> CatEnds(r[2], 1, s, {i})
      [] r[1] = "alt" -> UNION {Ends(r[2][k], s, i) : k \in DOMAIN r[2]}
      [] r[1] = "rep" -> RepEnds(r[2], r[3], r[4], s, {i}, 0, {i})
      [] r[1] = "bol" -> IF i = 1 THEN {i} ELSE {}
      [] r[1] = "eol" -> IF i = Len(s) + 1 THEN {i} ELSE {}
      [] r[1] = "wordb" -> IF IsWordAt(s, i - 1) # IsWordAt(s, i) THEN {i} ELSE {}
      [] r[1] = "nla" -> IF Ends(r[2], s, i) = {} THEN {i} ELSE {}

CatEnds(rs, k, s, P) ==
    IF k > Len(rs) \/ P = {} THEN P
    ELSE CatEnds(rs, k + 1, s, UNION {Ends(rs[k], s, p) : p \in P})

\* P: the positions reached after exactly n repetitions
RepEnds(r, lo, hi, s, P, n, seen) ==
    LET here == IF n >= lo THEN P ELSE {}
        step == UNION {Ends(r, s, p) : p \in P}
        next == IF n >= lo THEN step \ seen ELSE step
    IN  IF P = {} \/ n = hi \/ next = {} THEN here
        ELSE here \cup RepEnds(r, lo, hi, s, next, n + 1, seen \cup next)

\* re.match(r, s) is not None
ReMatch(r, s) == Ends(r, s, 1) # {}

\* re.search(r, s) is not None
ReSearch(r, s) == \E i \in 1..(Len(s) + 1) : Ends(r, s, i) # {}

Max(S) == CHOOSE x \in S : \A y \in S : y <= x
Min(S) == CHOOSE x \in S : \A y \in S : x <= y

(***************************************************************************)
(* Values: datetime, timedelta, float, and the raised ValueError           *)
(***************************************************************************)
SecondsPerDay == 24 * 3600
Million == 1000 * 1000

\* datetime: days after 1900-01-01, seconds after midnight, microseconds
datetime(d, s, us) == [kind |-> "datetime", d |-> d, s |-> s, us |-> us]

\* timedelta(days = d, seconds = s, microseconds = us), normalised as Python
\* normalises it: 0 <= seconds < 86400 and 0 <= microseconds < 1000000
timedelta(d, s, us) ==
    [kind |-> "timedelta",
     d |-> d + ((s + (us \div Million)) \div SecondsPerDay),
     s |-> (s + (us \div Million)) % SecondsPerDay,
     us |-> us % Million]

RECURSIVE Gcd(_, _)
Gcd(a, b) == IF b = 0 THEN a ELSE Gcd(b, a % b)

Abs(n) == IF n < 0 THEN 0 - n ELSE n

\* the float num/den, in lowest terms
float(num, den) ==
    LET g == Gcd(Abs(num), den)
    IN  [kind |-> "float", num |-> num \div g, den |-> den \div g]

ValueError(msg) == [kind |-> "error", msg |-> msg]

IsDatetime(v) == v.kind = "datetime"
IsTimedelta(v) == v.kind = "timedelta"
IsFloat(v) == v.kind = "float"
IsError(v) == v.kind = "error"

\* datetime(1900, 1, 1): the date strptime gives a time-only string
Sentinel == datetime(0, 0, 0)

\* n / m rounded to the nearest integer, ties to even (m > 0)
RoundHalfEven(n, m) ==
    LET q == n \div m
        r == n % m
    IN  IF 2 * r < m THEN q
        ELSE IF 2 * r > m THEN q + 1
        ELSE IF q % 2 = 0 THEN q ELSE q + 1

\* the datetime d days, s seconds and us microseconds after 1900-01-01
DatetimeOf(t) == datetime(t.d, t.s, t.us)

\* datetime.__add__(timedelta)
DatetimePlus(a, t) == DatetimeOf(timedelta(a.d + t.d, a.s + t.s, a.us + t.us))

\* datetime.__sub__(timedelta)
DatetimeMinus(a, t) == DatetimeOf(timedelta(a.d - t.d, a.s - t.s, a.us - t.us))

\* datetime.__sub__(datetime)
DatetimeDiff(a, b) == timedelta(a.d - b.d, a.s - b.s, a.us - b.us)

\* timedelta.__add__ and timedelta.__sub__
TimedeltaPlus(a, b) == timedelta(a.d + b.d, a.s + b.s, a.us + b.us)
TimedeltaMinus(a, b) == timedelta(a.d - b.d, a.s - b.s, a.us - b.us)

\* the milliseconds and what is left of them: rm / den milliseconds and us
\* microseconds times num / den, rounded to the microsecond, ties to even
MicrosecondsTimes(rm, us, num, den) == RoundHalfEven(rm * 1000 + us * num, den)

\* rs / den seconds and us microseconds times num / den, in microseconds
SecondsRestTimes(rs, us, num, den) ==
    ((rs * 1000 + (us \div 1000) * num) \div den) * 1000
    + MicrosecondsTimes((rs * 1000 + (us \div 1000) * num) % den, us % 1000, num, den)

\* rd / den days and t.s seconds and t.us microseconds times num / den
DaysRestTimes(qd, rd, t, num, den) ==
    timedelta(qd, (rd * SecondsPerDay + t.s * num) \div den,
              SecondsRestTimes((rd * SecondsPerDay + t.s * num) % den, t.us, num, den))

\* timedelta * (num/den) and timedelta(seconds = t * num / den): the exact
\* product rounded to the microsecond, ties to even (den > 0), computed
\* field by field so that no intermediate value leaves the integers of TLC
TimedeltaTimes(t, num, den) ==
    DaysRestTimes((t.d * num) \div den, (t.d * num) % den, t, num, den)

\* add_values without its else branch: the second datetime always counts
\* for its time of day only
add_values_time_of_day(a, b) ==
    IF IsDatetime(a) /\ IsTimedelta(b) THEN DatetimePlus(a, b)
    ELSE IF IsTimedelta(a) /\ IsDatetime(b) THEN DatetimePlus(b, a)
    ELSE IF IsTimedelta(a) /\ IsTimedelta(b) THEN TimedeltaPlus(a, b)
    ELSE IF IsDatetime(a) /\ IsDatetime(b) THEN DatetimePlus(a, timedelta(0, b.s, b.us))
    ELSE ValueError("Cannot add")

\* add_values(a, b)
add_values(a, b) ==
    IF IsDatetime(a) /\ IsTimedelta(b) THEN DatetimePlus(a, b)
    ELSE IF IsTimedelta(a) /\ IsDatetime(b) THEN DatetimePlus(b, a)
    ELSE IF IsTimedelta(a) /\ IsTimedelta(b) THEN TimedeltaPlus(a, b)
    ELSE IF IsDatetime(a) /\ IsDatetime(b) THEN
        IF b.d = Sentinel.d
        THEN DatetimePlus(a, timedelta(0, b.s, b.us))
        ELSE DatetimePlus(a, DatetimeDiff(b, Sentinel))
    ELSE ValueError("Cannot add")

\* subtract_values with a branch too many: a timedelta minus a datetime
\* taken as the datetime minus the timedelta
subtract_values_either_order(a, b) ==
    IF IsDatetime(a) /\ IsDatetime(b) THEN DatetimeDiff(a, b)
    ELSE IF IsDatetime(a) /\ IsTimedelta(b) THEN DatetimeMinus(a, b)
    ELSE IF IsTimedelta(a) /\ IsDatetime(b) THEN DatetimeMinus(b, a)
    ELSE IF IsTimedelta(a) /\ IsTimedelta(b) THEN TimedeltaMinus(a, b)
    ELSE ValueError("Invalid subtraction")

\* subtract_values(a, b)
subtract_values(a, b) ==
    IF IsDatetime(a) /\ IsDatetime(b) THEN DatetimeDiff(a, b)
    ELSE IF IsDatetime(a) /\ IsTimedelta(b) THEN DatetimeMinus(a, b)
    ELSE IF IsTimedelta(a) /\ IsTimedelta(b) THEN TimedeltaMinus(a, b)
    ELSE ValueError("Invalid subtraction")

\* multiply_values without its first branch: the number has to come second
multiply_values_duration_first(a, b) ==
    IF IsTimedelta(a) /\ IsFloat(b) THEN TimedeltaTimes(a, b.num, b.den)
    ELSE ValueError("Can only multiply number x duration")

\* multiply_values with a branch for two numbers, which returns a number
multiply_values_of_numbers(a, b) ==
    IF IsFloat(a) /\ IsFloat(b) THEN float(a.num * b.num, a.den * b.den)
    ELSE IF IsFloat(a) /\ IsTimedelta(b) THEN TimedeltaTimes(b, a.num, a.den)
    ELSE IF IsTimedelta(a) /\ IsFloat(b) THEN TimedeltaTimes(a, b.num, b.den)
    ELSE ValueError("Can only multiply number x duration")

\* multiply_values(a, b)
multiply_values(a, b) ==
    IF IsFloat(a) /\ IsTimedelta(b) THEN TimedeltaTimes(b, a.num, a.den)
    ELSE IF IsTimedelta(a) /\ IsFloat(b) THEN TimedeltaTimes(a, b.num, b.den)
    ELSE ValueError("Can only multiply number x duration")

(***************************************************************************)
(* The calendar of datetime                                                *)
(***************************************************************************)
IsLeap(y) == (y % 4 = 0) /\ ((y % 100 # 0) \/ (y % 400 = 0))

DaysInMonth(y, m) ==
    CASE m \in {1, 3, 5, 7, 8, 10, 12} -> 31
      [] m \in {4, 6, 9, 11} -> 30
      [] OTHER -> IF IsLeap(y) THEN 29 ELSE 28

RECURSIVE DaysBeforeMonth(_, _)
DaysBeforeMonth(y, m) ==
    IF m = 1 THEN 0 ELSE DaysBeforeMonth(y, m - 1) + DaysInMonth(y, m - 1)

\* date(y, m, d).toordinal()
Ordinal(y, m, d) ==
    LET p == y - 1
    IN  365 * p + (p \div 4) - (p \div 100) + (p \div 400) + DaysBeforeMonth(y, m) + d

\* datetime(y, m, d, hh, mm, ss, us)
MakeDatetime(y, m, d, hh, mm, ss, us) ==
    datetime(Ordinal(y, m, d) - Ordinal(1900, 1, 1), hh * 3600 + mm * 60 + ss, us)

(***************************************************************************)
(* Numbers                                                                 *)
(***************************************************************************)
Digit == Chr(Digits)
Space == Chr(Whitespace)

\* [0-9]+(?:\.[0-9]+)? : the magnitude of every duration, percentage and data pattern
NumberRe == Cat(<<Plus(Digit), Opt(Cat(<<Chr({"."}), Plus(Digit)>>))>>)

\* the position of the first c in s, or 0
RECURSIVE IndexOf(_, _, _)
IndexOf(s, c, i) ==
    IF i > Len(s) THEN 0 ELSE IF s[i] = c THEN i ELSE IndexOf(s, c, i + 1)

\* float(t) of an unsigned decimal literal (digits, optionally a point and digits)
Decimal(t) ==
    LET dot == IndexOf(t, ".", 1)
        int == IF dot = 0 THEN t ELSE SubSeq(t, 1, dot - 1)
        frac == IF dot = 0 THEN <<>> ELSE SubSeq(t, dot + 1, Len(t))
    IN  float(DigitsVal(int) * Pow10(Len(frac)) + DigitsVal(frac), Pow10(Len(frac)))

\* the strings float() converts, among the decimal literals: a sign, digits
\* and at most one point with a digit on at least one side of it
FloatRe ==
    Cat(<<Bol, Opt(Chr({"+", "-"})),
          Alt(<<Cat(<<Plus(Digit), Opt(Cat(<<Chr({"."}), Star(Digit)>>))>>),
                Cat(<<Chr({"."}), Plus(Digit)>>)>>),
          Eol>>)

\* is_number(text): float(text) does not raise (float strips whitespace itself)
is_number(text) == ReMatch(FloatRe, Strip(text))

\* float(text), for a text is_number accepts
FloatOf(text) ==
    LET t == Strip(text)
        neg == t[1] = "-"
        u == IF t[1] \in {"+", "-"} THEN Tail(t) ELSE t
        v == Decimal(IF u[1] = "." THEN <<"0">> \o u
                     ELSE IF u[Len(u)] = "." THEN u \o <<"0">> ELSE u)
    IN  IF neg THEN float(0 - v.num, v.den) ELSE v

(***************************************************************************)
(* parse_duration                                                          *)
(***************************************************************************)
\* re.findall(r, s): the spans <<i, j>> of the successive leftmost matches of
\* r from position i on.  Every pattern findall is used with here is a
\* number followed by a unit, which matches at most one span from a given start.
RECURSIVE FindAll(_, _, _)
FindAll(r, s, i) ==
    IF i > Len(s) THEN <<>>
    ELSE LET e == Ends(r, s, i)
         IN  IF e = {} THEN FindAll(r, s, i + 1)
             ELSE <<(<<i, Max(e)>>)>> \o FindAll(r, s, Max(e))

\* the patterns dictionary of parse_duration, in its order: the unit suffix,
\* what may not follow it, and the timedelta of one unit
DurationUnits ==
    << [unit |-> <<"y">>, notAhead |-> {}, one |-> timedelta(365, 6 * 3600, 0)],
       [unit |-> <<"m", "o">>, notAhead |-> {}, one |-> timedelta(30, 38016, 0)],
       [unit |-> <<"w">>, notAhead |-> {}, one |-> timedelta(7, 0, 0)],
       [unit |-> <<"d">>, notAhead |-> {}, one |-> timedelta(1, 0, 0)],
       [unit |-> <<"h">>, notAhead |-> {}, one |-> timedelta(0, 3600, 0)],
       [unit |-> <<"m">>, notAhead |-> {"o"}, one |-> timedelta(0, 60, 0)],
       [unit |-> <<"s">>, notAhead |-> {}, one |-> timedelta(0, 1, 0)] >>

\* the patterns without the lookahead of the minutes
DurationUnitRe_no_lookahead(u) == Cat(<<NumberRe, Lit(u.unit)>>)

\* r'([0-9]+(?:\.[0-9]+)?)<unit>' with its lookahead
DurationUnitRe(u) ==
    Cat(<<NumberRe, Lit(u.unit)>>
        \o (IF u.notAhead = {} THEN <<>> ELSE <<NotAhead(Chr(u.notAhead))>>))

\* the sum of converter(match) over the matches of one pattern
RECURSIVE SumMatches(_, _, _, _)
SumMatches(u, s, ms, k) ==
    IF k > Len(ms) THEN timedelta(0, 0, 0)
    ELSE LET x == Decimal(Slice(s, ms[k][1], ms[k][2] - Len(u.unit)))
         IN  TimedeltaPlus(TimedeltaTimes(u.one, x.num, x.den), SumMatches(u, s, ms, k + 1))

RECURSIVE SumUnits(_, _)
SumUnits(s, k) ==
    IF k > Len(DurationUnits) THEN timedelta(0, 0, 0)
    ELSE TimedeltaPlus(
             SumMatches(DurationUnits[k], s, FindAll(DurationUnitRe(DurationUnits[k]), s, 1), 1),
             SumUnits(s, k + 1))

\* ^[0-9]+(?:\.[0-9]+)?h$
SimpleHoursRe == Cat(<<Bol, NumberRe, Chr({"h"}), Eol>>)

\* parse_duration reading a leading minus sign as the sign of the duration
parse_duration_signed(duration_str) ==
    LET s == Lower(Strip(duration_str))
        found_any == \E k \in 1..Len(DurationUnits) :
                         FindAll(DurationUnitRe(DurationUnits[k]), s, 1) # <<>>
    IN  IF ~found_any THEN ValueError("Cannot parse duration")
        ELSE IF s[1] = "-" THEN TimedeltaMinus(timedelta(0, 0, 0), SumUnits(s, 1))
        ELSE SumUnits(s, 1)

\* parse_duration(duration_str)
parse_duration(duration_str) ==
    LET s == Lower(Strip(duration_str))
        found_any == \E k \in 1..Len(DurationUnits) :
                         FindAll(DurationUnitRe(DurationUnits[k]), s, 1) # <<>>
    IN  IF ReMatch(SimpleHoursRe, s)
        THEN LET x == Decimal(SubSeq(s, 1, Len(s) - 1))
             IN  TimedeltaTimes(timedelta(0, 3600, 0), x.num, x.den)
        ELSE IF ~found_any THEN ValueError("Cannot parse duration")
        ELSE SumUnits(s, 1)

(***************************************************************************)
(* datetime.strptime                                                       *)
(***************************************************************************)
Directives == {"%Y", "%m", "%d", "%H", "%M", "%S", "%f", "%I", "%p"}

\* the regular expression _strptime gives each directive
DirectiveRe(dir) ==
    CASE dir = "%Y" -> Rep(Digit, 4, 4)
      [] dir \in {"%m", "%I"} ->
             Alt(<<Cat(<<Chr({"1"}), Chr({"0", "1", "2"})>>),
                   Cat(<<Chr({"0"}), Chr(Digits \ {"0"})>>),
                   Chr(Digits \ {"0"})>>)
      [] dir = "%d" ->
             Alt(<<Cat(<<Chr({"3"}), Chr({"0", "1"})>>),
                   Cat(<<Chr({"1", "2"}), Digit>>),
                   Cat(<<Chr({"0"}), Chr(Digits \ {"0"})>>),
                   Chr(Digits \ {"0"}),
                   Cat(<<Chr({" "}), Chr(Digits \ {"0"})>>)>>)
      [] dir = "%H" ->
             Alt(<<Cat(<<Chr({"2"}), Chr({"0", "1", "2", "3"})>>),
                   Cat(<<Chr({"0", "1"}), Digit>>),
                   Digit>>)
      [] dir = "%M" ->
             Alt(<<Cat(<<Chr({"0", "1", "2", "3", "4", "5"}), Digit>>), Digit>>)
      [] dir = "%S" ->
             Alt(<<Cat(<<Chr({"6"}), Chr({"0", "1"})>>),
                   Cat(<<Chr({"0", "1", "2", "3", "4", "5"}), Digit>>),
                   Digit>>)
      [] dir = "%f" -> Rep(Digit, 1, 6)
      [] dir = "%p" -> Alt(<<LitI(<<"a", "m">>), LitI(<<"p", "m">>)>>)

\* the value of a directive's text: 1 for pm and 0 for am; %f is padded
\* with zeros on the right to six digits
DirectiveVal(dir, t) ==
    CASE dir = "%p" -> IF ToLowerChar(t[1]) = "p" THEN 1 ELSE 0
      [] dir = "%f" -> DigitsVal(t) * Pow10(6 - Len(t))
      [] OTHER -> DigitsVal(SelectSeq(t, LAMBDA c : c \in Digits))

NoFields == [dir \in Directives |-> 0 - 1]

\* the field values of every way the whole of s matches the format from its
\* k-th element and position i on (a blank of the format is \s+)
RECURSIVE StrpFields(_, _, _, _, _)
StrpFields(fmt, k, s, i, acc) ==
    IF k > Len(fmt) THEN (IF i = Len(s) + 1 THEN {acc} ELSE {})
    ELSE LET r == IF fmt[k] \in Directives THEN DirectiveRe(fmt[k])
                  ELSE IF fmt[k] = " " THEN Plus(Space)
                  ELSE Chr({fmt[k]})
         IN  UNION { StrpFields(fmt, k + 1, s, j,
                                IF fmt[k] \in Directives
                                THEN [acc EXCEPT ![fmt[k]] = DirectiveVal(fmt[k], Slice(s, i, j))]
                                ELSE acc) : j \in Ends(r, s, i) }

\* the datetime of the fields with the defaults 1970-01-01 00:00:00
StrpDatetime_epoch_1970(f) ==
    LET year == IF f["%Y"] < 0 THEN 1970 ELSE f["%Y"]
        month == IF f["%m"] < 0 THEN 1 ELSE f["%m"]
        day == IF f["%d"] < 0 THEN 1 ELSE f["%d"]
        hour == IF f["%I"] >= 0
                THEN IF f["%p"] = 1
                     THEN (IF f["%I"] # 12 THEN f["%I"] + 12 ELSE 12)
                     ELSE (IF f["%I"] = 12 THEN 0 ELSE f["%I"])
                ELSE IF f["%H"] < 0 THEN 0 ELSE f["%H"]
        minute == IF f["%M"] < 0 THEN 0 ELSE f["%M"]
        second == IF f["%S"] < 0 THEN 0 ELSE f["%S"]
        fraction == IF f["%f"] < 0 THEN 0 ELSE f["%f"]
    IN  IF year < 1 \/ day > DaysInMonth(year, month) \/ second > 59
        THEN ValueError("out of range")
        ELSE MakeDatetime(year, month, day, hour, minute, second, fraction)

\* the datetime of the fields f, as _strptime builds it: the defaults
\* 1900-01-01 00:00:00, the 12-hour clock, and the range checks of datetime
StrpDatetime(f) ==
    LET year == IF f["%Y"] < 0 THEN 1900 ELSE f["%Y"]
        month == IF f["%m"] < 0 THEN 1 ELSE f["%m"]
        day == IF f["%d"] < 0 THEN 1 ELSE f["%d"]
        hour == IF f["%I"] >= 0
                THEN IF f["%p"] = 1
                     THEN (IF f["%I"] # 12 THEN f["%I"] + 12 ELSE 12)
                     ELSE (IF f["%I"] = 12 THEN 0 ELSE f["%I"])
                ELSE IF f["%H"] < 0 THEN 0 ELSE f["%H"]
        minute == IF f["%M"] < 0 THEN 0 ELSE f["%M"]
        second == IF f["%S"] < 0 THEN 0 ELSE f["%S"]
        fraction == IF f["%f"] < 0 THEN 0 ELSE f["%f"]
    IN  IF year < 1 \/ day > DaysInMonth(year, month) \/ second > 59
        THEN ValueError("out of range")
        ELSE MakeDatetime(year, month, day, hour, minute, second, fraction)

StrpResult(fs) ==
    IF fs = {} THEN ValueError("does not match format")
    ELSE StrpDatetime(CHOOSE x \in fs : TRUE)

\* datetime.strptime(s, fmt): the datetime, or the ValueError it raises
strptime(s, fmt) == StrpResult(StrpFields(fmt, 1, s, 1, NoFields))

(***************************************************************************)
(* parse_datetime                                                          *)
(***************************************************************************)
\* the formats list of parse_datetime, in its order
formats ==
    << <<"%Y", "-", "%m", "-", "%d", " ", "%H", ":", "%M", ":", "%S", ".", "%f">>,
       <<"%Y", "-", "%m", "-", "%d", " ", "%H", ":", "%M", ":", "%S">>,
       <<"%Y", "-", "%m", "-", "%d", " ", "%H", ":", "%M">>,
       <<"%Y", "-", "%m", "-", "%d", " ", "%I", ":", "%M", ":", "%S", " ", "%p">>,
       <<"%Y", "-", "%m", "-", "%d", " ", "%I", ":", "%M", " ", "%p">>,
       <<"%Y", "/", "%m", "/", "%d", " ", "%H", ":", "%M", ":", "%S", ".", "%f">>,
       <<"%Y", "/", "%m", "/", "%d", " ", "%H", ":", "%M", ":", "%S">>,
       <<"%Y", "/", "%m", "/", "%d", " ", "%H", ":", "%M">>,
       <<"%Y", "/", "%m", "/", "%d", " ", "%I", ":", "%M", ":", "%S", " ", "%p">>,
       <<"%Y", "/", "%m", "/", "%d", " ", "%I", ":", "%M", " ", "%p">>,
       <<"%m", "/", "%d", "/", "%Y", " ", "%H", ":", "%M", ":", "%S">>,
       <<"%m", "/", "%d", "/", "%Y", " ", "%H", ":", "%M">>,
       <<"%m", "/", "%d", "/", "%Y", " ", "%I", ":", "%M", " ", "%p">>,
       <<"%H", ":", "%M", ":", "%S", ".", "%f">>,
       <<"%H", ":", "%M", ":", "%S">>,
       <<"%H", ":", "%M">>,
       <<"%I", ":", "%M", ":", "%S", " ", "%p">>,
       <<"%I", ":", "%M", " ", "%p">>,
       <<"%Y", "-", "%m", "-", "%d">>,
       <<"%Y", "/", "%m", "/", "%d">>,
       <<"%m", "/", "%d", "/", "%Y">> >>

\* re.sub(r'([ap])(?:\s|$)', r'\1m', s, flags=re.IGNORECASE)
RECURSIVE NormalizeMeridiem(_, _)
NormalizeMeridiem(s, i) ==
    IF i > Len(s) THEN <<>>
    ELSE IF ToLowerChar(s[i]) \in {"a", "p"} /\ (i = Len(s) \/ s[i + 1] \in Whitespace)
         THEN <<s[i], "m">> \o NormalizeMeridiem(s, i + 2)
         ELSE <<s[i]>> \o NormalizeMeridiem(s, i + 1)

\* (?:\s*(am|pm))?$
MeridiemTailRe ==
    Cat(<<Opt(Cat(<<Star(Space), Alt(<<LitI(<<"a", "m">>), LitI(<<"p", "m">>)>>)>>)), Eol>>)

\* decimal_patterns[0]: ^(\d{1,2}):(\d{2}):(\d{1,2}(?:\.\d+)?)(?:\s*(am|pm))?$
DecimalSecondsRe ==
    Cat(<<Bol, Rep(Digit, 1, 2), Chr({":"}), Rep(Digit, 2, 2), Chr({":"}),
          Rep(Digit, 1, 2), Opt(Cat(<<Chr({"."}), Plus(Digit)>>)), MeridiemTailRe>>)

\* decimal_patterns[1]: ^(\d{1,2}):(\d{2})(?:\s*(am|pm))?$
MinutesOnlyRe ==
    Cat(<<Bol, Rep(Digit, 1, 2), Chr({":"}), Rep(Digit, 2, 2), MeridiemTailRe>>)

\* the length of the run of characters of S that starts at s[i]
RECURSIVE RunLength(_, _, _)
RunLength(s, i, S) ==
    IF i <= Len(s) /\ s[i] \in S THEN 1 + RunLength(s, i + 1, S) ELSE 0

\* the body of the decimal_patterns loop without its validation: the hour
\* of a meridiem is taken as it is written
DecimalTime_unchecked(s, withSeconds) ==
    LET c1 == IndexOf(s, ":", 1)
        hours0 == DigitsVal(SubSeq(s, 1, c1 - 1))
        minutes == DigitsVal(SubSeq(s, c1 + 1, c1 + 2))
        seconds == IF withSeconds
                   THEN DigitsVal(SubSeq(s, c1 + 4, c1 + 3 + RunLength(s, c1 + 4, Digits)))
                   ELSE 0
        last == ToLowerChar(s[Len(s)])
        ampm == IF last = "m" THEN ToLowerChar(s[Len(s) - 1]) ELSE "none"
        hours == IF ampm = "p" /\ hours0 # 12 THEN hours0 + 12
                 ELSE IF ampm = "a" /\ hours0 = 12 THEN 0
                 ELSE hours0
    IN  DatetimeOf(timedelta(0, hours * 3600 + minutes * 60 + seconds, 0))

\* the body of the decimal_patterns loop for a string one of them matches
DecimalTime(s, withSeconds) ==
    LET c1 == IndexOf(s, ":", 1)
        hours0 == DigitsVal(SubSeq(s, 1, c1 - 1))
        minutes == DigitsVal(SubSeq(s, c1 + 1, c1 + 2))
        \* int(seconds_float): the whole seconds of group 3
        seconds == IF withSeconds
                   THEN DigitsVal(SubSeq(s, c1 + 4, c1 + 3 + RunLength(s, c1 + 4, Digits)))
                   ELSE 0
        \* int((seconds_float - seconds) * 1000000), for the decimals as written
        dot == c1 + 4 + RunLength(s, c1 + 4, Digits)
        decimals == IF withSeconds /\ dot <= Len(s) /\ s[dot] = "."
                    THEN SubSeq(s, dot + 1, dot + RunLength(s, dot + 1, Digits))
                    ELSE <<>>
        microseconds == DigitsVal(SubSeq(decimals \o <<"0", "0", "0", "0", "0", "0">>, 1, 6))
        last == ToLowerChar(s[Len(s)])
        ampm == IF last = "m" THEN ToLowerChar(s[Len(s) - 1]) ELSE "none"
    IN  IF minutes >= 60 \/ seconds >= 60 THEN ValueError("Invalid time")
        ELSE IF ampm # "none" /\ ~(1 <= hours0 /\ hours0 <= 12)
             THEN ValueError("Invalid 12-hour format")
        ELSE IF ampm = "none" /\ hours0 >= 24 THEN ValueError("Invalid 24-hour format")
        ELSE LET hours == IF ampm = "p" /\ hours0 # 12 THEN hours0 + 12
                          ELSE IF ampm = "a" /\ hours0 = 12 THEN 0
                          ELSE hours0
             IN  MakeDatetime(1900, 1, 1, hours, minutes, seconds, microseconds)

\* the first format strptime accepts, tried in order from the k-th
RECURSIVE TryFormats(_, _)
TryFormats(s, k) ==
    IF k > Len(formats) THEN ValueError("no format")
    ELSE LET r == strptime(s, formats[k])
         IN  IF IsError(r) THEN TryFormats(s, k + 1) ELSE r

\* the decimal_patterns loop and the final raise
DecimalFallback(s) ==
    IF ReMatch(DecimalSecondsRe, s) THEN DecimalTime(s, TRUE)
    ELSE IF ReMatch(MinutesOnlyRe, s) THEN DecimalTime(s, FALSE)
    ELSE ValueError("Cannot parse datetime")

ParseNormalized(s, r) == IF ~IsError(r) THEN r ELSE DecimalFallback(s)

ParseStripped(s) == ParseNormalized(s, TryFormats(s, 1))

\* parse_datetime(time_str)
parse_datetime(time_str) == ParseStripped(NormalizeMeridiem(Strip(time_str), 1))

\* time_patterns of is_datetime_format
time_patterns ==
    << Cat(<<Rep(Digit, 1, 2), Chr({":"}), Rep(Digit, 2, 2),
             Opt(Cat(<<Chr({":"}), Rep(Digit, 2, 2)>>)),
             Opt(Cat(<<Chr({"."}), Plus(Digit)>>)),
             Opt(Cat(<<Star(Space), ClassI({"a", "p"}), Opt(ClassI({"m"}))>>))>>),
       Cat(<<Rep(Digit, 4, 4), Chr({"-", "/"}), Rep(Digit, 2, 2), Chr({"-", "/"}),
             Rep(Digit, 2, 2)>>),
       Cat(<<Rep(Digit, 1, 2), Chr({"/"}), Rep(Digit, 1, 2), Chr({"/"}), Rep(Digit, 4, 4)>>) >>

\* is_datetime_format(text)
is_datetime_format(text) ==
    \E k \in 1..Len(time_patterns) : ReSearch(time_patterns[k], text)

\* parse_value(text), after the clock has been read: `now` is the datetime
\* datetime.now() returns if the text is the keyword
parse_value(text, now) ==
    LET t == Strip(text)
    IN  IF Lower(t) = <<"n", "o", "w">> THEN now
        ELSE IF is_number(t) THEN FloatOf(t)
        ELSE IF is_datetime_format(t) THEN parse_datetime(t)
        ELSE parse_duration(t)

(***************************************************************************)
(* Progress: convert_progress_syntax, is_progress_function,                *)
(* calculate_progress                                                      *)
(***************************************************************************)
T_progress == <<"p", "r", "o", "g", "r", "e", "s", "s">>

\* without the f prefix the braces are not substituted: the text of
\* at_pattern and in_pattern has the literal characters {duration_pattern},
\* and `{` followed by no repeat count is an ordinary character to re
T_duration_pattern == <<"{", "d", "u", "r", "a", "t", "i", "o", "n", "_", "p", "a", "t", "t", "e", "r", "n", "}">>

\* at_pattern: ({duration_pattern})\s*@\s*([0-9]+(?:\.[0-9]+)?)%
at_head == Cat(<<Lit(T_duration_pattern), Star(Space), Chr({"@"}), Star(Space)>>)
at_pattern == Cat(<<at_head, NumberRe, Chr({"%"})>>)

\* in_pattern: ([0-9]+(?:\.[0-9]+)?)%\s+in\s+({duration_pattern})
in_pattern ==
    Cat(<<NumberRe, Chr({"%"}), Plus(Space), Lit(<<"i", "n">>), Plus(Space),
          Lit(T_duration_pattern)>>)

\* progress(<dur>, <pct>%)
ProgressCall(dur, pct) == T_progress \o <<"(">> \o dur \o <<",", " ">> \o pct \o <<"%", ")">>

\* re.sub(at_pattern, r'progress(\1, \2%)', s), from position i on
RECURSIVE SubAt(_, _)
SubAt(s, i) ==
    IF i > Len(s) THEN <<>>
    ELSE LET e == Ends(at_pattern, s, i)
         IN  IF e = {} THEN <<s[i]>> \o SubAt(s, i + 1)
             ELSE ProgressCall(T_duration_pattern,
                               Slice(s, Max(Ends(at_head, s, i)), Max(e) - 1))
                  \o SubAt(s, Max(e))

\* re.sub(in_pattern, r'progress(\2, \1%)', s), from position i on
RECURSIVE SubIn(_, _)
SubIn(s, i) ==
    IF i > Len(s) THEN <<>>
    ELSE LET e == Ends(in_pattern, s, i)
         IN  IF e = {} THEN <<s[i]>> \o SubIn(s, i + 1)
             ELSE ProgressCall(T_duration_pattern, Slice(s, i, Max(Ends(NumberRe, s, i))))
                  \o SubIn(s, Max(e))

\* convert_progress_syntax(expression)
convert_progress_syntax(expression) == SubIn(SubAt(expression, 1), 1)

\* ^\s*progress\s*\([^)]+\)\s*$
ProgressFunctionRe ==
    Cat(<<Bol, Star(Space), LitI(T_progress), Star(Space), Chr({"("}),
          Plus(Chr(AnyChar \ {")"})), Chr({")"}), Star(Space), Eol>>)

\* is_progress_function(text)
is_progress_function(text) == ReMatch(ProgressFunctionRe, text)

\* progress\s*\(\s*  : the head of the pattern of calculate_progress
ProgressHeadRe == Cat(<<LitI(T_progress), Star(Space), Chr({"("})>>)

\* (?:\s*,\s*(\w+))?\s*\)  : its tail, with and without the mode
ProgressModeRe == Cat(<<Star(Space), Chr({","}), Star(Space), Plus(Chr(WordChars))>>)
ProgressCloseRe == Cat(<<Star(Space), Chr({")"})>>)

NoProgressMatch == [ok |-> FALSE, duration_str |-> <<>>, percentage |-> <<>>, mode |-> <<>>]

\* \s*,\s* before the mode
ProgressModeLeadRe == Cat(<<Star(Space), Chr({","}), Star(Space)>>)

\* the groups once the percent sign is matched at pe - 1: the mode, if a
\* word and the closing parenthesis follow, else 'total' if the closing
\* parenthesis follows
ProgressGroups(s, open, comma, n0, pe) ==
    IF Ends(Cat(<<ProgressModeRe, ProgressCloseRe>>), s, pe) # {}
    THEN [ok |-> TRUE,
          duration_str |-> Strip(Slice(s, open, comma)),
          percentage |-> Slice(s, n0, pe - 1),
          mode |-> Lower(Slice(s, Max(Ends(ProgressModeLeadRe, s, pe)),
                               Max(Ends(ProgressModeRe, s, pe))))]
    ELSE IF Ends(ProgressCloseRe, s, pe) # {}
    THEN [ok |-> TRUE,
          duration_str |-> Strip(Slice(s, open, comma)),
          percentage |-> Slice(s, n0, pe - 1),
          mode |-> <<"t", "o", "t", "a", "l">>]
    ELSE NoProgressMatch

\* ([0-9]+(?:\.[0-9]+)?)% from n0 on
ProgressPercent(s, open, comma, n0, ne) ==
    IF ne = {} THEN NoProgressMatch ELSE ProgressGroups(s, open, comma, n0, Max(ne))

\* ([^,]+)\s*,\s* : group 1 runs from the parenthesis to the first comma
ProgressComma(s, open, comma) ==
    IF comma <= open THEN NoProgressMatch
    ELSE ProgressPercent(s, open, comma, Max(Ends(Star(Space), s, comma + 1)),
                         Ends(Cat(<<NumberRe, Chr({"%"})>>), s,
                              Max(Ends(Star(Space), s, comma + 1))))

ProgressOpen(s, h) ==
    IF h = {} THEN NoProgressMatch ELSE ProgressComma(s, Max(h), IndexOf(s, ",", Max(h)))

\* re.match(pattern, progress_expr, re.IGNORECASE) of calculate_progress:
\* [ok, duration_str = group(1).strip(), percentage = group(2), mode = group(3) or 'total'];
\* the groups are fixed by the text once the match succeeds
ProgressMatch(s) == ProgressOpen(s, Ends(ProgressHeadRe, s, 1))

\* the branches on mode; total is timedelta(seconds = elapsed_seconds /
\* (percentage / 100.0)) and remaining timedelta(seconds = total_seconds -
\* elapsed_seconds)
ProgressByMode(mode, percentage, elapsed, now) ==
    IF IsError(elapsed) THEN elapsed
    ELSE IF mode = <<"t", "o", "t", "a", "l">>
    THEN TimedeltaTimes(elapsed, 100 * percentage.den, percentage.num)
    ELSE IF mode = <<"r", "e", "m", "a", "i", "n", "i", "n", "g">>
    THEN TimedeltaTimes(elapsed, 100 * percentage.den - percentage.num, percentage.num)
    ELSE IF mode = <<"e", "t", "a">>
    THEN DatetimePlus(now, TimedeltaTimes(elapsed, 100 * percentage.den - percentage.num,
                                          percentage.num))
    ELSE ValueError("Invalid mode")

\* the test of the percentage with 100 let through
ProgressChecked_inclusive(mode, percentage, duration_str, now) ==
    IF ~(0 < percentage.num /\ percentage.num <= 100 * percentage.den)
    THEN ValueError("Percentage must be between 0 and 100")
    ELSE ProgressByMode(mode, percentage, parse_duration(duration_str), now)

\* the test of the percentage, then parse_duration(duration_str)
ProgressChecked(mode, percentage, duration_str, now) ==
    IF ~(0 < percentage.num /\ percentage.num < 100 * percentage.den)
    THEN ValueError("Percentage must be between 0 and 100")
    ELSE ProgressByMode(mode, percentage, parse_duration(duration_str), now)

ProgressMatched(match, now) ==
    IF ~match.ok THEN ValueError("Invalid progress syntax")
    ELSE ProgressChecked(match.mode, Decimal(match.percentage), match.duration_str, now)

\* calculate_progress(progress_expr); `now` is what datetime.now() returns
\* when the eta branch reads the clock
calculate_progress(progress_expr, now) == ProgressMatched(ProgressMatch(progress_expr), now)

(***************************************************************************)
(* tokenize                                                                *)
(***************************************************************************)
\* (\s*[ap]m?)?
MeridiemOptRe == Opt(Cat(<<Star(Space), ClassI({"a", "p"}), Opt(ClassI({"m"}))>>))

\* (\s+\d{1,2}:\d{2}(:\d{2})?(\s*[ap]m?)?)?
ClockOptRe ==
    Opt(Cat(<<Plus(Space), Rep(Digit, 1, 2), Chr({":"}), Rep(Digit, 2, 2),
              Opt(Cat(<<Chr({":"}), Rep(Digit, 2, 2)>>)), MeridiemOptRe>>))

\* patterns of looks_like_datetime
looks_like_datetime_patterns ==
    << Cat(<<Bol, Rep(Digit, 4, 4), Chr({"-", "/"}), Rep(Digit, 2, 2), Chr({"-", "/"}),
             Rep(Digit, 2, 2), ClockOptRe, Eol>>),
       Cat(<<Bol, Rep(Digit, 1, 2), Chr({"/"}), Rep(Digit, 1, 2), Chr({"/"}),
             Rep(Digit, 4, 4), ClockOptRe, Eol>>),
       Cat(<<Bol, Rep(Digit, 1, 2), Chr({":"}), Rep(Digit, 2, 2),
             Opt(Cat(<<Chr({":"}), Rep(Digit, 2, 2)>>)), MeridiemOptRe, Eol>>) >>

\* looks_like_datetime(text)
looks_like_datetime(text) ==
    \E k \in 1..Len(looks_like_datetime_patterns) :
        ReMatch(looks_like_datetime_patterns[k], text)

\* \d{4}$ and \d{4}-\d{2}$
YearTailRe == Cat(<<Rep(Digit, 4, 4), Eol>>)
YearMonthTailRe == Cat(<<Rep(Digit, 4, 4), Chr({"-"}), Rep(Digit, 2, 2), Eol>>)

\* is_operator_here without the test of the text before the character
is_operator_here_blank_before(expression, before, char) ==
    IF char = "-" /\ (ReSearch(YearTailRe, before) \/ ReSearch(YearMonthTailRe, before))
    THEN FALSE
    ELSE IF char = "*" THEN TRUE
    ELSE IF looks_like_datetime(Strip(before)) THEN TRUE
    ELSE " " \in {before[k] : k \in 1..Len(before)}
         \/ Contains(expression, before \o <<char, " ">>)

\* is_operator_here without the test that keeps a date whole
is_operator_here_no_year_rule(expression, before, char) ==
    IF Strip(before) = <<>> THEN FALSE
    ELSE IF char = "*" THEN TRUE
    ELSE IF looks_like_datetime(Strip(before)) THEN TRUE
    ELSE " " \in {before[k] : k \in 1..Len(before)}
         \/ Contains(expression, before \o <<char, " ">>)

\* is_operator_here(expression, before, char)
is_operator_here(expression, before, char) ==
    IF Strip(before) = <<>> THEN FALSE
    ELSE IF char = "-" /\ (ReSearch(YearTailRe, before) \/ ReSearch(YearMonthTailRe, before))
         THEN FALSE
    ELSE IF char = "*" THEN TRUE
    ELSE IF looks_like_datetime(Strip(before)) THEN TRUE
    ELSE " " \in {before[k] : k \in 1..Len(before)}
         \/ Contains(expression, before \o <<char, " ">>)

\* the for loop of tokenize from the i-th character on, and the final append
RECURSIVE TokenizeFrom(_, _, _, _, _)
TokenizeFrom(expression, i, tokens, current, paren_depth) ==
    IF i > Len(expression)
    THEN (IF Strip(current) # <<>> THEN Append(tokens, Strip(current)) ELSE tokens)
    ELSE LET char == expression[i]
         IN  IF char = "("
             THEN TokenizeFrom(expression, i + 1, tokens, Append(current, char), paren_depth + 1)
             ELSE IF char = ")"
             THEN TokenizeFrom(expression, i + 1, tokens, Append(current, char), paren_depth - 1)
             ELSE IF char \in {"+", "-", "*"} /\ paren_depth = 0
                     /\ is_operator_here(expression, current, char)
             THEN TokenizeFrom(expression, i + 1,
                               (IF Strip(current) # <<>> THEN Append(tokens, Strip(current))
                                ELSE tokens) \o <<(<<char>>)>>,
                               <<>>, paren_depth)
             ELSE TokenizeFrom(expression, i + 1, tokens, Append(current, char), paren_depth)

\* tokenize(expression)
tokenize(expression) ==
    IF is_progress_function(expression) THEN <<expression>>
    ELSE TokenizeFrom(expression, 1, <<>>, <<>>, 0)

\* the positions of the characters the for loop of tokenize appends as
\* operators: those at which its branch of is_operator_here is taken
RECURSIVE OperatorsFrom(_, _, _, _)
OperatorsFrom(expression, i, current, paren_depth) ==
    IF i > Len(expression) THEN {}
    ELSE LET char == expression[i]
         IN  IF char = "("
             THEN OperatorsFrom(expression, i + 1, Append(current, char), paren_depth + 1)
             ELSE IF char = ")"
             THEN OperatorsFrom(expression, i + 1, Append(current, char), paren_depth - 1)
             ELSE IF char \in {"+", "-", "*"} /\ paren_depth = 0
                     /\ is_operator_here(expression, current, char)
             THEN {i} \cup OperatorsFrom(expression, i + 1, <<>>, paren_depth)
             ELSE OperatorsFrom(expression, i + 1, Append(current, char), paren_depth)

\* what a call of tokenize(expression) does: the list it returns and the
\* positions it took for operators
Tokenized(expression) ==
    [kind |-> "tokens",
     tokens |-> tokenize(expression),
     operators |-> IF is_progress_function(expression) THEN {}
                   ELSE OperatorsFrom(expression, 1, <<>>, 0)]

(***************************************************************************)
(* Data rate: parse_data_amount, calculate_data_rate                       *)
(***************************************************************************)
\* ^([0-9]+(?:\.[0-9]+)?)\s*([KMGTP]?[i]?[B])$ under re.IGNORECASE
DataAmountRe ==
    Cat(<<Bol, NumberRe, Star(Space), Opt(ClassI({"k", "m", "g", "t", "p"})),
          Opt(ClassI({"i"})), ClassI({"b"}), Eol>>)

\* factors with the binary units counted in thousands
factors_decimal_only(unit) ==
    CASE unit = <<"B">> -> 1
      [] unit \in {<<"K", "B">>, <<"K", "I", "B">>} -> 1000
      [] unit \in {<<"M", "B">>, <<"M", "I", "B">>} -> 1000 * 1000
      [] unit \in {<<"G", "B">>, <<"G", "I", "B">>} -> 1000 * 1000 * 1000
      [] OTHER -> 0

\* factors[unit] of parse_data_amount, for the unit in upper case
factors(unit) ==
    CASE unit = <<"B">> -> 1
      [] unit = <<"K", "B">> -> 1000
      [] unit = <<"M", "B">> -> 1000 * 1000
      [] unit = <<"G", "B">> -> 1000 * 1000 * 1000
      [] unit = <<"T", "B">> -> 1000 * 1000 * 1000 * 1000
      [] unit = <<"P", "B">> -> 1000 * 1000 * 1000 * 1000 * 1000
      [] unit = <<"K", "I", "B">> -> 1024
      [] unit = <<"M", "I", "B">> -> 1024 * 1024
      [] unit = <<"G", "I", "B">> -> 1024 * 1024 * 1024
      [] unit = <<"T", "I", "B">> -> 1024 * 1024 * 1024 * 1024
      [] unit = <<"P", "I", "B">> -> 1024 * 1024 * 1024 * 1024 * 1024
      [] OTHER -> 0

ToUpperChar(c) ==
    IF c \in LowerLetters THEN CHOOSE u \in UpperLetters : ToLowerChar(u) = c ELSE c

Upper(s) == [k \in 1..Len(s) |-> ToUpperChar(s[k])]

\* float(match.group(1)) * factors[unit]
DataAmount(value, unit) ==
    IF factors(unit) = 0 THEN ValueError("Unknown data unit")
    ELSE float(value.num * factors(unit), value.den)

DataAmountStripped(s, ne) ==
    IF ~ReMatch(DataAmountRe, s) THEN ValueError("Cannot parse data amount")
    ELSE DataAmount(Decimal(Slice(s, 1, ne)), Upper(LStrip(SubSeq(s, ne, Len(s)))))

\* parse_data_amount(data_str): the float number of bytes
parse_data_amount(data_str) ==
    DataAmountStripped(Strip(data_str), Max(Ends(NumberRe, Strip(data_str), 1) \cup {1}))

\* timedelta.total_seconds(), as a float
total_seconds(t) ==
    float((t.d * SecondsPerDay + t.s) * (Million \div Gcd(t.us, Million))
              + t.us \div Gcd(t.us, Million),
          Million \div Gcd(t.us, Million))

\* a / b of two floats, b > 0 (reduced crosswise before it is multiplied)
FloatOver(a, b) ==
    float((a.num \div Gcd(Abs(a.num), b.num)) * (b.den \div Gcd(a.den, b.den)),
          (a.den \div Gcd(a.den, b.den)) * (b.num \div Gcd(Abs(a.num), b.num)))

\* the body of calculate_data_rate returning the projected byte count alone
DataRate_total_bytes(elapsed_time, data_amount_bytes, total_data_bytes) ==
    IF IsError(elapsed_time) \/ IsError(data_amount_bytes) \/ IsError(total_data_bytes)
    THEN ValueError("Data rate calculation error")
    ELSE IF elapsed_time.d < 0 \/ (elapsed_time.d = 0 /\ elapsed_time.s = 0 /\ elapsed_time.us = 0)
    THEN ValueError("Data rate calculation error")
    ELSE IF data_amount_bytes.num <= 0 \/ total_data_bytes.num <= 0
    THEN ValueError("Data rate calculation error")
    ELSE total_data_bytes

\* the body of calculate_data_rate once its three arguments are parsed; every
\* exception is raised again as a ValueError
DataRate(elapsed_time, data_amount_bytes, total_data_bytes) ==
    IF IsError(elapsed_time) \/ IsError(data_amount_bytes) \/ IsError(total_data_bytes)
    THEN ValueError("Data rate calculation error")
    ELSE IF elapsed_time.d < 0 \/ (elapsed_time.d = 0 /\ elapsed_time.s = 0 /\ elapsed_time.us = 0)
    THEN ValueError("Data rate calculation error")
    ELSE IF data_amount_bytes.num <= 0 \/ total_data_bytes.num <= 0
    THEN ValueError("Data rate calculation error")
    ELSE [kind |-> "data_rate",
          \* timedelta(seconds = total_data_bytes / (data_amount_bytes / elapsed_seconds))
          \* (the quotient of the two amounts in lowest terms)
          total_time |-> TimedeltaTimes(elapsed_time,
                                        (total_data_bytes.num \div Gcd(total_data_bytes.num, data_amount_bytes.num))
                                          * (data_amount_bytes.den \div Gcd(total_data_bytes.den, data_amount_bytes.den)),
                                        (total_data_bytes.den \div Gcd(total_data_bytes.den, data_amount_bytes.den))
                                          * (data_amount_bytes.num \div Gcd(total_data_bytes.num, data_amount_bytes.num))),
          transfer_rate |-> FloatOver(data_amount_bytes, total_seconds(elapsed_time)),
          elapsed_time |-> elapsed_time,
          data_amount |-> data_amount_bytes,
          total_data |-> total_data_bytes]

\* calculate_data_rate(elapsed_time_str, data_amount_str, total_data_str)
calculate_data_rate(elapsed_time_str, data_amount_str, total_data_str) ==
    DataRate(parse_duration(Strip(elapsed_time_str)),
             parse_data_amount(Strip(data_amount_str)),
             parse_data_amount(Strip(total_data_str)))

\* . of the re module
Dot == Chr(AnyChar \ {"\n"})

\* ^(.+?)\s*@\s*(.+?)\s*->\s*(.+?)$ , cut where its groups end
RateAtRe == Cat(<<Star(Space), Chr({"@"}), Star(Space)>>)
RateArrowRe == Cat(<<Star(Space), Chr({"-"}), Chr({">"}), Star(Space)>>)
RateTail2Re == Cat(<<RateArrowRe, Plus(Dot), Eol>>)
RateTail1Re == Cat(<<RateAtRe, Plus(Dot), RateTail2Re>>)

\* group 3 starts after the longest \s*->\s* that leaves it a character
RateGroup3(s, e1, a, e2) ==
    [ok |-> TRUE, g1 |-> Slice(s, 1, e1), g2 |-> Slice(s, a, e2),
     g3 |-> SubSeq(s, Max({x \in Ends(RateArrowRe, s, e2) :
                              Ends(Cat(<<Plus(Dot), Eol>>), s, x) # {}}), Len(s))]

\* group 2 is the shortest text from a on that the arrow and group 3 can follow
RateGroup2(s, e1, a) ==
    RateGroup3(s, e1, a,
               Min({e \in (a + 1)..Len(s) : Ends(RateTail2Re, s, e) # {}
                                            /\ \A k \in a..(e - 1) : s[k] # "\n"}))

\* group 1 is the shortest text that \s*@\s* and the rest can follow
RateGroup1(s, E1) ==
    IF E1 = {} THEN [ok |-> FALSE, g1 |-> <<>>, g2 |-> <<>>, g3 |-> <<>>]
    ELSE RateGroup2(s, Min(E1),
                    Max({x \in Ends(RateAtRe, s, Min(E1)) :
                            Ends(Cat(<<Plus(Dot), RateTail2Re>>), s, x) # {}}))

\* rate_match: [ok, g1, g2, g3], the lazy groups taking the shortest text
\* and the \s* the longest that lets the rest match
rate_match(s) ==
    RateGroup1(s, {e \in 2..Len(s) : Ends(RateTail1Re, s, e) # {}
                                     /\ \A k \in 1..(e - 1) : s[k] # "\n"})

(***************************************************************************)
(* The clock and the `now` keyword                                         *)
(***************************************************************************)
RECURSIVE YearFrom(_, _)
YearFrom(day, y) ==
    IF Ordinal(y + 1, 1, 1) - Ordinal(1900, 1, 1) <= day THEN YearFrom(day, y + 1) ELSE y

RECURSIVE MonthFrom(_, _, _)
MonthFrom(dayOfYear, y, m) ==
    IF DaysBeforeMonth(y, m) + DaysInMonth(y, m) <= dayOfYear
    THEN MonthFrom(dayOfYear, y, m + 1) ELSE m

TwoDigits(n) == <<DigitChar(n \div 10), DigitChar(n % 10)>>

FourDigits(n) == TwoDigits(n \div 100) \o TwoDigits(n % 100)

\* t.strftime("%Y-%m-%d %H:%M:%S")
strftime(t) ==
    LET y == YearFrom(t.d, 1900 + (t.d \div 366))
        doy == t.d - (Ordinal(y, 1, 1) - Ordinal(1900, 1, 1))
        m == MonthFrom(doy, y, 1)
        dd == doy - DaysBeforeMonth(y, m) + 1
    IN  FourDigits(y) \o <<"-">> \o TwoDigits(m) \o <<"-">> \o TwoDigits(dd) \o <<" ">>
        \o TwoDigits(t.s \div 3600) \o <<":">> \o TwoDigits((t.s % 3600) \div 60)
        \o <<":">> \o TwoDigits(t.s % 60)

T_now == <<"n", "o", "w">>

\* \bnow\b under re.IGNORECASE
NowRe == Cat(<<WordBoundary, LitI(T_now), WordBoundary>>)

\* re.sub(r'\bnow\b', now_str, s, flags=re.IGNORECASE), from position i on
RECURSIVE SubNow(_, _, _)
SubNow(s, i, now_str) ==
    IF i > Len(s) THEN <<>>
    ELSE IF Ends(NowRe, s, i) # {} THEN now_str \o SubNow(s, i + 3, now_str)
    ELSE <<s[i]>> \o SubNow(s, i + 1, now_str)

\* expression.replace('\n', ' ').replace('\r', '').strip()
Clean(e) ==
    Strip([k \in 1..Len(SelectSeq(e, LAMBDA c : c # "\r")) |->
              LET c == SelectSeq(e, LAMBDA x : x # "\r")[k]
              IN  IF c = "\n" THEN " " ELSE c])

(***************************************************************************)
(* The state: the call of parse_and_calculate, its callers, the wall clock *)
(***************************************************************************)
VARIABLES
    clock,       \* the datetime that datetime.now() returns when it is called
    pc,          \* the statement of parse_and_calculate the call stands at
    input,       \* the expression the caller passed
    expression,  \* the local variable expression
    tokens,      \* the list tokenize returned
    i,           \* the index i of evaluate_tokens
    result,      \* the running result of evaluate_tokens
    samples,     \* the values datetime.now() has returned during the call
    outcome,     \* what the call returned, or the error it raised
    prev,        \* the input and the outcome of the call before
    args,        \* the arguments of a direct call of an engine function
    fn,          \* the engine function that was called directly
    ret,         \* what the direct call returned
    status_var,  \* what the status bar shows
    results_text,\* what the results area shows
    messagebox,  \* the error dialog shown last
    thread,      \* the thread that is running
    other,       \* the call of the thread that is not running
    alone        \* no step of the other thread has run since the call began

vars == <<clock, pc, input, expression, tokens, i, result, samples, outcome, prev,
          args, fn, ret, status_var, results_text, messagebox, thread, other, alone>>

callVars == <<pc, input, expression, tokens, i, result, samples, outcome, prev>>
directVars == <<args, fn, ret>>
guiVars == <<status_var, results_text, messagebox>>
threadVars == <<thread, other, alone>>

NoValue == [kind |-> "none"]

\* the welcome text show_welcome writes and the status bar of create_interface
Welcome == [kind |-> "welcome"]
Ready == [kind |-> "ready"]

\* the call of a thread that has not called yet
IdleCall ==
    [pc |-> "idle", input |-> <<>>, expression |-> <<>>, tokens |-> <<>>, i |-> 0,
     result |-> NoValue, samples |-> <<>>, outcome |-> NoValue, alone |-> TRUE]

\* the wall clock when the program starts, and how many times it may advance
\* while the calls run
ClockStart == MakeDatetime(2025, 1, 1, 0, 0, 0, 0)
MaxTicks == 2

(***************************************************************************)
(* Expressions the caller may pass                                         *)
(***************************************************************************)
Join(a, op, b) == a \o <<" ", op, " ">> \o b

Operators == {"+", "-", "*"}

DurationTexts == {<<"3", "d">>, <<"1", "h", "1", "5", "s">>}
TimeTexts == {<<"2", ":", "5", "6", "a", "m">>, <<"4", ":", "3", "0", "p">>}
DateTexts == {<<"2", "0", "2", "5", "-", "0", "8", "-", "1", "9", " ", "1", "7", ":", "0", "0">>, <<"2", "0", "2", "5", "-", "0", "8", "-", "1", "9">>}
NumberTexts == {<<"3">>, <<"2", ".", "5">>, <<"-", "1">>}
Operands == DurationTexts \cup TimeTexts \cup DateTexts \cup NumberTexts \cup {T_now}

\* the operands of the expressions with two operators
ChainOperands == {<<"3", "d">>, <<"2", ":", "5", "6", "a", "m">>, <<"2", "0", "2", "5", "-", "0", "8", "-", "1", "9">>, <<"2">>}

BinaryInputs == {Join(a, op, b) : a \in Operands, op \in Operators, b \in Operands}

ChainInputs ==
    {Join(Join(a, op1, b), op2, c) :
        a \in ChainOperands, op1 \in Operators, b \in ChainOperands,
        op2 \in Operators, c \in ChainOperands}

ProgressDurations == {<<"1", "h", "1", "5", "s">>, <<"7", "s">>, <<"x", "x">>}
ProgressPercents == {<<"0">>, <<"1", "5">>, <<"3", "0">>, <<"5", "0", ".", "5">>, <<"1", "0", "0">>, <<"1", "5", "0">>}
ProgressModes == {<<>>, <<"t", "o", "t", "a", "l">>, <<"r", "e", "m", "a", "i", "n", "i", "n", "g">>, <<"e", "t", "a">>, <<"E", "T", "A">>, <<"R", "e", "m", "a", "i", "n", "i", "n", "g">>, <<"f", "o", "o">>}

\* progress(<dur>, <pct>%[, <mode>])
ProgressText(dur, pct, mode) ==
    T_progress \o <<"(">> \o dur \o <<",", " ">> \o pct \o <<"%">>
    \o (IF mode = <<>> THEN <<>> ELSE <<",", " ">> \o mode) \o <<")">>

ProgressInputs ==
    {ProgressText(d, p, m) : d \in ProgressDurations, p \in ProgressPercents,
                             m \in ProgressModes}
    \cup {ProgressText(<<"1", "h", " ", "n", "o", "w">>, <<"5", "0">>, <<"e", "t", "a">>), ProgressText(<<"1", "h">>, <<"5", "0">>, T_now)}

\* <dur>@<pct>% and <pct>% in <dur>
AtText(dur, pct) == dur \o <<"@">> \o pct \o <<"%">>
InText(dur, pct) == pct \o <<"%", " ", "i", "n", " ">> \o dur

SugarDurations == {<<"1", "h", "1", "5", "s">>, <<"7", "s">>, T_duration_pattern}
SugarPercents == {<<"1", "5">>, <<"5", "0", ".", "5">>, <<"1", "0", "0">>}

SugarInputs ==
    {AtText(d, p) : d \in SugarDurations, p \in SugarPercents}
    \cup {InText(d, p) : d \in SugarDurations, p \in SugarPercents}
    \cup {ProgressText(d, p, <<>>) : d \in SugarDurations, p \in SugarPercents}

\* <elapsed> @ <transferred> -> <target>
RateText(e, a, t) == e \o <<" ", "@", " ">> \o a \o <<" ", "-", ">", " ">> \o t

RateElapsed == {<<"2", "h", "3", "0", "m">>, <<"1", ".", "5", "s">>, <<"0", "s">>, <<"x", "x">>}
RateAmounts == {<<"1", ".", "5", "M", "B">>, <<"5", "0", "0", "K", "B">>, <<"2", "K", "i", "B">>, <<"1", "0", "2", "4", " ", "b">>, <<"0", "M", "B">>, <<"5", "i", "B">>, <<"5", "X", "B">>}
RateTargets == {<<"1", "0", "K", "B">>, <<"2", "M", "i", "B">>, <<"3", " ", "k", "b">>, <<"0", "B">>, <<"5">>}

RateInputs ==
    {RateText(e, a, t) : e \in RateElapsed, a \in RateAmounts, t \in RateTargets}
    \cup {<<"4", "5", "m", "@", "5", "0", "0", "K", "B", "-", ">", "2", "M", "i", "B">>,
          <<"n", "o", "w", " ", "@", " ", "1", "M", "B", " ", "-", ">", " ", "2", "M", "B">>}

LoneInputs == {<<"1", "h", "1", "5", "s">>, <<"2", ":", "5", "6", "a", "m">>, <<"3">>, <<"1", "h", " ", "/", " ", "2">>}

\* two spellings of one computation, for two calls that are compared: the
\* sugar forms and progress(...), and a product with its operands swapped
SwappedInputs ==
    {Join(k, "*", d) : k \in NumberTexts, d \in DurationTexts}
    \cup {Join(d, "*", k) : k \in NumberTexts, d \in DurationTexts}

\* expressions of three and five tokens, and each of them followed by an
\* operator that has no operand
DanglingBases ==
    {<<"3", "d", " ", "+", " ", "1", "h">>,
     <<"2", " ", "*", " ", "3", "d">>,
     <<"2", "0", "2", "5", "-", "0", "8", "-", "1", "9", " ", "-", " ", "3", "d">>,
     <<"3", "d", " ", "+", " ", "2", "0", "2", "5", "-", "0", "8", "-", "1", "9", " ", "+", " ", "1", "h">>,
     <<"3", "d", " ", "+", " ", "1", "h", " ", "-", " ", "5", "m">>,
     <<"2", " ", "*", " ", "3">>,
     <<"3", "d", " ", "+", " ", "x", "x">>,
     <<"1", "h", " ", "*", " ", "2", " ", "+", " ", "3", "d">>}
Dangling(b, op) == b \o <<" ", op>>
DanglingInputs == DanglingBases \cup {Dangling(b, op) : b \in DanglingBases, op \in Operators}

CompareInputs == SugarInputs \cup SwappedInputs \cup DanglingInputs


\* the expressions tokenize is called with: two operands with an operator
\* between them, spaced on both sides, on one or on none, three operands
\* with the second operator unspaced, and a few texts with nothing on one
\* side of an operator
Spaced(a, before, op, after, b) ==
    a \o (IF before THEN <<" ">> ELSE <<>>) \o <<op>>
      \o (IF after THEN <<" ">> ELSE <<>>) \o b

TokenOperands ==
    {<<"3", "d">>, <<"1", "h", "1", "5", "s">>, <<"2", ":", "5", "6", "a", "m">>,
     <<"2", "0", "2", "5", "-", "0", "8", "-", "1", "9">>,
     <<"2", "0", "2", "5", "-", "0", "8", "-", "1", "9", " ", "1", "7", ":", "0", "0">>,
     <<"1", "2", "/", "2", "5", "/", "2", "0", "2", "5">>,
     <<"p", "r", "o", "g", "r", "e", "s", "s", "(", "7", "s", "-", "1", "s", ",", " ", "5", "0", "%", ")">>}

TokenTails == {<<"5", "m">>, <<"2", "0", "2", "5", "-", "0", "8", "-", "0", "1">>}

TokenEdges ==
    {<<>>, <<"+">>, <<"*", " ", "3", "d">>, <<"-", "1", "h", " ", "+", " ", "3", "d">>,
     <<"3", "d", " ", "*">>, <<"3", "d", " ", "+", " ", "-", "1", "h">>,
     <<"3", "d", " ", "*", " ", "*", " ", "2">>, <<"3", "d", " ", "+", "+", " ", "1", "h">>,
     <<"*", " ", "*", " ", "3">>, <<"(", "3", "d", " ", "+", " ", "1", "h", ")", " ", "*", " ", "2">>}

TokenInputs ==
    {Spaced(a, x, op, y, b) : a \in TokenOperands, x \in BOOLEAN, op \in Operators,
                              y \in BOOLEAN, b \in TokenOperands}
    \cup {Spaced(Spaced(a, x, op1, x, b), FALSE, op2, FALSE, c) :
             a \in TokenOperands, x \in BOOLEAN, op1 \in {"+", "-"}, b \in TokenOperands,
             op2 \in {"+", "-"}, c \in TokenTails}
    \cup TokenEdges

\* the texts parse_duration is called with: one pair of a magnitude and a
\* unit suffix, two pairs in either order, and texts that hold no pair
Magnitudes == {<<"1">>, <<"2", ".", "5">>, <<"1", "0">>}
Suffixes == {<<"s">>, <<"m">>, <<"h">>, <<"d">>, <<"w">>, <<"m", "o">>, <<"y">>}
PairTexts == {m \o u : m \in Magnitudes, u \in Suffixes}
NoPairTexts == {<<>>, <<"x", "x">>, <<"1", "5">>, <<"h">>, <<"1", ".", "5">>}
\* text that is no part of a pair, before and after the pairs
StrayHeads == {<<>>, <<"-">>, <<"+">>, <<"-", " ">>, <<"a", "b", "o", "u", "t", " ">>}
StrayTails == {<<>>, <<" ", "1", "5">>, <<"!">>, <<" ", "x">>}
StrayTexts ==
    {h \o p \o t : h \in StrayHeads, p \in PairTexts, t \in StrayTails}
    \cup {<<"3", "d", "-", "1", "h">>, <<"-", "1", "h", "1", "5", "s", " ", "7">>, <<"x", "x", "3", "d", "y", "y">>, <<"-", "y", "y">>, <<"-", " ", "1", "5">>}

DurationInputs ==
    PairTexts \cup {p \o q : p, q \in PairTexts} \cup NoPairTexts
    \cup {<<"1", "H", "1", "5", "S">>, <<" ", "2", "d", " ", "3", "0", "m", " ">>}
    \cup StrayTexts

\* the operands parse_value is called with: signed durations, a signed
\* number, a time, a date and text that is none of them
ValueInputs ==
    {h \o p : h \in {<<>>, <<"-">>, <<"+">>}, p \in PairTexts}
    \cup {<<"-", "1">>, <<"2", ".", "5">>, <<"-", "1", "h", "3", "0", "m">>, <<"2", ":", "5", "6", "a", "m">>, <<"2", "0", "2", "5", "-", "0", "8", "-", "1", "9">>, <<"-", "y", "y">>, <<"n", "o", "w">>}

\* the texts parse_datetime is called with: clock literals H:MM[:SS] with
\* and without a meridiem, dates without a time, and a few others
ClockHours == {<<"0">>, <<"1">>, <<"9">>, <<"1", "1">>, <<"1", "2">>, <<"1", "3">>, <<"2", "3">>, <<"2", "4">>}
ClockMinutes == {<<"0", "0">>, <<"3", "0">>, <<"5", "9">>, <<"6", "0">>}
ClockSeconds == {<<>>, <<"0", "0">>, <<"5", "9">>, <<"6", "0">>}
Meridiems == {<<>>, <<"a", "m">>, <<"p", "m">>, <<" ", "a", "m">>, <<" ", "p", "m">>, <<"a">>, <<"p">>, <<"P", "M">>}
ClockText(h, m, sec, mer) ==
    h \o <<":">> \o m \o (IF sec = <<>> THEN <<>> ELSE <<":">> \o sec) \o mer
ClockInputs ==
    {ClockText(h, m, sec, mer) : h \in ClockHours, m \in ClockMinutes,
                                 sec \in ClockSeconds, mer \in Meridiems}
DateOnlyTexts == {<<"2", "0", "2", "5", "-", "0", "8", "-", "1", "9">>, <<"2", "0", "2", "5", "/", "0", "8", "/", "1", "9">>, <<"0", "8", "/", "1", "9", "/", "2", "0", "2", "5">>, <<"2", "0", "2", "4", "-", "0", "2", "-", "2", "9">>, <<"2", "0", "2", "5", "-", "0", "2", "-", "3", "0">>}
DatetimeInputs ==
    ClockInputs \cup DateOnlyTexts
    \cup {<<"2", "0", "2", "5", "-", "0", "8", "-", "1", "9", " ", "1", "7", ":", "0", "0">>, <<"1", ":", "0", "2", ":", "0", "5", ".", "5">>, <<"1", ":", "0", "2", ":", "0", "5", ".", "5", "p", "m">>, <<"2", "0", "2", "5", "-", "0", "8", "-", "1", "9", " ", "4", ":", "3", "0", " ", "p", "m">>}

\* the timedeltas added to a parsed datetime: 3.5 hours, a second, 23 hours
ShortDurations == {timedelta(0, 12600, 0), timedelta(0, 1, 0), timedelta(0, 82800, 0)}

\* a progress call as one operand of an arithmetic expression
ProgressOperands ==
    {ProgressText(<<"7", "s">>, <<"5", "0">>, <<>>),
     ProgressText(<<"1", "h", "1", "5", "s">>, <<"1", "5">>, <<"r", "e", "m", "a", "i", "n", "i", "n", "g">>)}

PlainOperands == {<<"1", "h">>, <<"2", "0", "2", "5", "-", "0", "8", "-", "1", "9">>, <<"2">>}

ProgressOperandInputs ==
    {Join(f, op, b) : f \in ProgressOperands, op \in Operators, b \in PlainOperands}
    \cup {Join(b, op, f) : f \in ProgressOperands, op \in Operators, b \in PlainOperands}

\* data amounts where an operand is expected
DataInputs ==
    {<<"5", "M", "B">>, <<"1", "0", "2", "4", " ", "b">>,
     <<"1", ".", "5", "M", "B", " ", "+", " ", "2", "K", "i", "B">>,
     <<"5", "0", "0", "K", "B", " ", "*", " ", "2">>,
     <<"2", " ", "*", " ", "1", ".", "5", "M", "B">>,
     <<"1", "h", " ", "+", " ", "5", "M", "B">>,
     <<"2", " ", "*", " ", "3">>}

Inputs == BinaryInputs \cup ChainInputs \cup ProgressInputs \cup SugarInputs
          \cup RateInputs \cup LoneInputs \cup TokenEdges \cup ProgressOperandInputs
          \cup DataInputs
          \cup {<<"2", ":", "5", "6", "a", "m", " ", "+", " ", "3", ".", "5", "h">>}

\* the operands of the direct calls: dated and time-only datetimes, whole
\* and fractional timedeltas of either sign, and floats
Instants ==
    {datetime(d, s, us) : d \in {0, 45349, 45886}, s \in {0, 10560, 86399}, us \in {0, 999999}}
Durations ==
    {timedelta(d, s, us) : d \in {0 - 1, 0, 3}, s \in {0, 4515}, us \in {0, 1, 500000}}
Scalars == {float(0, 1), float(1, 1), float(5, 2), float(0 - 1, 1), float(3, 10)}
Values == Instants \cup Durations \cup Scalars

(***************************************************************************)
(* parse_and_calculate, statement by statement                             *)
(***************************************************************************)
Init ==
    /\ clock = ClockStart
    /\ pc = "idle"
    /\ input = <<>>
    /\ expression = <<>>
    /\ tokens = <<>>
    /\ i = 0
    /\ result = NoValue
    /\ samples = <<>>
    /\ outcome = NoValue
    /\ prev = [input |-> <<>>, outcome |-> NoValue]
    /\ args = <<>>
    /\ fn = "none"
    /\ ret = NoValue
    /\ status_var = Ready
    /\ results_text = Welcome
    /\ messagebox = NoValue
    /\ thread = "main"
    /\ other = IdleCall
    /\ alone = TRUE

\* the wall clock advances by half a second, whatever the call is doing
Tick ==
    /\ clock.d = ClockStart.d
    /\ 2 * (clock.s - ClockStart.s) + (clock.us \div 500000) < MaxTicks
    /\ clock' = DatetimePlus(clock, timedelta(0, 0, 500000))
    /\ UNCHANGED <<callVars, directVars, guiVars, threadVars>>

\* the call, and expression.replace('\n', ' ').replace('\r', '').strip()
CallOf(S) ==
    /\ pc = "idle"
    /\ fn = "none"
    /\ pc' = "now"
    /\ \E e \in S :
          /\ input' = e
          /\ expression' = Clean(e)
    /\ tokens' = <<>>
    /\ i' = 0
    /\ result' = NoValue
    /\ samples' = <<>>
    /\ outcome' = NoValue
    /\ UNCHANGED <<clock, prev, directVars, guiVars, threadVars>>

Call == CallOf(Inputs)

\* the call of one of the expressions that are compared
CallCompared == CallOf(CompareInputs)

\* if 'now' in expression.lower(): now_str = datetime.now().strftime(...);
\* expression = re.sub(r'\bnow\b', now_str, expression)
ReplaceNow ==
    /\ pc = "now"
    /\ IF Contains(Lower(expression), T_now)
       THEN /\ samples' = Append(samples, clock)
            /\ expression' = SubNow(expression, 1, strftime(clock))
       ELSE UNCHANGED <<samples, expression>>
    /\ pc' = "rate"
    /\ UNCHANGED <<clock, input, tokens, i, result, outcome, prev, directVars, guiVars, threadVars>>

\* rate_match = re.match(...); if rate_match: return self.calculate_data_rate(...)
RateCheck ==
    /\ pc = "rate"
    /\ LET m == rate_match(Strip(expression))
       IN  IF m.ok
           THEN /\ outcome' = calculate_data_rate(m.g1, m.g2, m.g3)
                /\ pc' = "done"
           ELSE /\ pc' = "convert"
                /\ UNCHANGED outcome
    /\ UNCHANGED <<clock, input, expression, tokens, i, result, samples, prev, directVars, guiVars, threadVars>>

\* expression = self.convert_progress_syntax(expression)
ConvertProgress ==
    /\ pc = "convert"
    /\ expression' = convert_progress_syntax(expression)
    /\ pc' = "progress"
    /\ UNCHANGED <<clock, input, tokens, i, result, samples, outcome, prev, directVars, guiVars, threadVars>>

\* if self.is_progress_function(expression): return self.calculate_progress(expression)
\* Only the eta branch of calculate_progress returns a datetime, and it is the
\* branch that calls datetime.now().
ProgressCheck ==
    /\ pc = "progress"
    /\ IF is_progress_function(expression)
       THEN /\ outcome' = calculate_progress(expression, clock)
            /\ samples' = IF IsDatetime(outcome') THEN Append(samples, clock) ELSE samples
            /\ pc' = "done"
       ELSE /\ pc' = "tokenize"
            /\ UNCHANGED <<outcome, samples>>
    /\ UNCHANGED <<clock, input, expression, tokens, i, result, prev, directVars, guiVars, threadVars>>

\* the test of len(tokens) < 3 with a lone operand evaluated by itself
Tokenize_lone_operand ==
    /\ pc = "tokenize"
    /\ tokens' = tokenize(expression)
    /\ IF Len(tokens') < 3
       THEN /\ pc' = "done"
            /\ outcome' = IF Len(tokens') = 1 THEN parse_value(tokens'[1], clock)
                           ELSE ValueError("Expression must contain at least one operator")
            /\ UNCHANGED samples
       ELSE /\ pc' = "first"
            /\ UNCHANGED <<outcome, samples>>
    /\ UNCHANGED <<clock, input, expression, i, result, prev, directVars, guiVars, threadVars>>

\* tokens = self.tokenize(expression) and the test of len(tokens) < 3
Tokenize ==
    /\ pc = "tokenize"
    /\ tokens' = tokenize(expression)
    /\ IF Len(tokens') < 3
       THEN /\ pc' = "done"
            /\ IF Len(tokens') = 1 /\ is_progress_function(tokens'[1])
               THEN /\ outcome' = calculate_progress(tokens'[1], clock)
                    /\ samples' = IF IsDatetime(outcome') THEN Append(samples, clock)
                                  ELSE samples
               ELSE /\ outcome' = ValueError("Expression must contain at least one operator")
                    /\ UNCHANGED samples
       ELSE /\ pc' = "first"
            /\ UNCHANGED <<outcome, samples>>
    /\ UNCHANGED <<clock, input, expression, i, result, prev, directVars, guiVars, threadVars>>

\* parse_value(text) calls datetime.now() when the text is the keyword
ValueSamples(text, now) == IF Lower(Strip(text)) = T_now THEN <<now>> ELSE <<>>

\* the statements of evaluate_tokens before its loop, as
\* [returned, value, samples]: returned when the function is left there, by
\* an error or by the return of second + first
FirstSecond(toks, first, second, now) ==
    IF IsError(second)
    THEN [returned |-> TRUE, value |-> second, samples |-> ValueSamples(toks[3], now)]
    ELSE IF IsDatetime(second)
    THEN [returned |-> TRUE, value |-> DatetimePlus(second, first),
          samples |-> ValueSamples(toks[3], now)]
    ELSE [returned |-> FALSE, value |-> first, samples |-> ValueSamples(toks[3], now)]

FirstParsed(toks, first, now) ==
    IF IsError(first)
    THEN [returned |-> TRUE, value |-> first, samples |-> ValueSamples(toks[1], now)]
    ELSE IF IsTimedelta(first) /\ Len(toks) >= 3 /\ toks[2] = <<"+">>
    THEN [FirstSecond(toks, first, parse_value(toks[3], now), now)
             EXCEPT !.samples = ValueSamples(toks[1], now) \o @]
    ELSE [returned |-> FALSE, value |-> first, samples |-> ValueSamples(toks[1], now)]

FirstToken(toks, now) ==
    IF is_number(toks[1]) /\ Len(toks) >= 3 /\ toks[2] = <<"*">>
    THEN [returned |-> FALSE, value |-> FloatOf(toks[1]), samples |-> <<>>]
    ELSE FirstParsed(toks, parse_value(toks[1], now), now)

\* evaluate_tokens up to its loop
ParseFirst ==
    /\ pc = "first"
    /\ \E f \in {FirstToken(tokens, clock)} :
          /\ samples' = samples \o f.samples
          /\ IF f.returned
             THEN outcome' = f.value /\ pc' = "done" /\ UNCHANGED result
             ELSE result' = f.value /\ pc' = "loop" /\ UNCHANGED outcome
    /\ i' = 1
    /\ UNCHANGED <<clock, input, expression, tokens, prev, directVars, guiVars, threadVars>>

\* the loop with add_values called in the branch of '-' too
ApplyOperator_minus_adds(op, a, b) ==
    IF op = <<"+">> THEN add_values(a, b)
    ELSE IF op = <<"-">> THEN add_values(a, b)
    ELSE IF op = <<"*">> THEN multiply_values(a, b)
    ELSE ValueError("Unknown operator")

\* the operator applied by one pass of the while loop
ApplyOperator(op, a, b) ==
    IF op = <<"+">> THEN add_values(a, b)
    ELSE IF op = <<"-">> THEN subtract_values(a, b)
    ELSE IF op = <<"*">> THEN multiply_values(a, b)
    ELSE ValueError("Unknown operator")

\* operand = self.parse_value(tokens[i + 1]) and the operator applied to it
ApplyParsed(op, a, operand) ==
    IF IsError(operand) THEN operand ELSE ApplyOperator(op, a, operand)

\* one pass of: while i < len(tokens) - 1
Operation ==
    /\ pc = "loop"
    /\ i < Len(tokens) - 1
    /\ \E r \in {ApplyParsed(tokens[i + 1], result, parse_value(tokens[i + 2], clock))} :
          IF IsError(r)
          THEN outcome' = r /\ pc' = "done" /\ UNCHANGED <<result, i>>
          ELSE result' = r /\ i' = i + 2 /\ UNCHANGED <<outcome, pc>>
    /\ samples' = samples \o ValueSamples(tokens[i + 2], clock)
    /\ UNCHANGED <<clock, input, expression, tokens, prev, directVars, guiVars, threadVars>>

\* the end of the loop with an operator left over raising an error
ReturnResult_operand_required ==
    /\ pc = "loop"
    /\ ~(i < Len(tokens) - 1)
    /\ outcome' = IF i = Len(tokens) - 1 THEN ValueError("Unknown operator") ELSE result
    /\ pc' = "done"
    /\ UNCHANGED <<clock, input, expression, tokens, i, result, samples, prev, directVars, guiVars, threadVars>>

\* the loop ends: return result
ReturnResult ==
    /\ pc = "loop"
    /\ ~(i < Len(tokens) - 1)
    /\ outcome' = result
    /\ pc' = "done"
    /\ UNCHANGED <<clock, input, expression, tokens, i, result, samples, prev, directVars, guiVars, threadVars>>

\* the caller takes the outcome; the next call starts from nothing
Finish ==
    /\ pc = "done"
    /\ pc' = "idle"
    /\ input' = <<>>
    /\ expression' = <<>>
    /\ tokens' = <<>>
    /\ i' = 0
    /\ result' = NoValue
    /\ samples' = <<>>
    /\ outcome' = NoValue
    /\ UNCHANGED <<clock, prev, directVars, guiVars, threadVars>>

\* a direct call of add_values(a, b)
AddValues ==
    /\ pc = "idle" /\ fn = "none"
    /\ \E a, b \in Values :
          /\ args' = <<a, b>>
          /\ ret' = add_values(a, b)
    /\ fn' = "add_values"
    /\ UNCHANGED <<clock, callVars, guiVars, threadVars>>

\* a direct call of subtract_values(a, b)
SubtractValues ==
    /\ pc = "idle" /\ fn = "none"
    /\ \E a, b \in Values :
          /\ args' = <<a, b>>
          /\ ret' = subtract_values(a, b)
    /\ fn' = "subtract_values"
    /\ UNCHANGED <<clock, callVars, guiVars, threadVars>>

\* a direct call of multiply_values(a, b)
MultiplyValues ==
    /\ pc = "idle" /\ fn = "none"
    /\ \E a, b \in Values :
          /\ args' = <<a, b>>
          /\ ret' = multiply_values(a, b)
    /\ fn' = "multiply_values"
    /\ UNCHANGED <<clock, callVars, guiVars, threadVars>>

\* subtract_values(r, b) for the r that add_values(a, b) returned
SubtractBack ==
    /\ fn = "add_values"
    /\ ~IsError(ret)
    /\ fn' = "add_values, subtract_values"
    /\ ret' = subtract_values(ret, args[2])
    /\ UNCHANGED <<clock, callVars, args, guiVars, threadVars>>

\* the caller takes what the direct call returned
Discard ==
    /\ fn # "none"
    /\ fn' = "none"
    /\ args' = <<>>
    /\ ret' = NoValue
    /\ UNCHANGED <<clock, callVars, guiVars, threadVars>>

\* the caller takes the outcome and keeps it beside the expression, to compare
\* the next call with
FinishKeep ==
    /\ pc = "done"
    /\ pc' = "idle"
    /\ prev' = [input |-> input, outcome |-> outcome]
    /\ input' = <<>>
    /\ expression' = <<>>
    /\ tokens' = <<>>
    /\ i' = 0
    /\ result' = NoValue
    /\ samples' = <<>>
    /\ outcome' = NoValue
    /\ UNCHANGED <<clock, directVars, guiVars, threadVars>>

Steps ==
    \/ ReplaceNow
    \/ RateCheck
    \/ ConvertProgress
    \/ ProgressCheck
    \/ Tokenize
    \/ ParseFirst
    \/ Operation
    \/ ReturnResult

Next ==
    \/ Call
    \/ Steps
    \/ Finish
    \/ AddValues
    \/ SubtractValues
    \/ MultiplyValues
    \/ SubtractBack
    \/ Discard
    \/ Tick

Spec == Init /\ [][Next]_vars

\* two calls one after the other, the second compared with the first
CompareNext ==
    \/ CallCompared
    \/ Steps
    \/ FinishKeep

CompareSpec == Init /\ [][CompareNext]_vars

\* a direct call of tokenize(expression)
TokenizeCall ==
    /\ pc = "idle" /\ fn = "none"
    /\ \E e \in TokenInputs :
          /\ args' = <<e>>
          /\ ret' = Tokenized(e)
    /\ fn' = "tokenize"
    /\ UNCHANGED <<clock, callVars, guiVars, threadVars>>

\* a direct call of parse_duration(duration_str)
ParseDurationCall ==
    /\ pc = "idle" /\ fn = "none"
    /\ \E t \in DurationInputs :
          /\ args' = <<t>>
          /\ ret' = parse_duration(t)
    /\ fn' = "parse_duration"
    /\ UNCHANGED <<clock, callVars, guiVars, threadVars>>

\* a direct call of parse_datetime(time_str)
ParseDatetimeCall ==
    /\ pc = "idle" /\ fn = "none"
    /\ \E t \in DatetimeInputs :
          /\ args' = <<t>>
          /\ ret' = parse_datetime(t)
    /\ fn' = "parse_datetime"
    /\ UNCHANGED <<clock, callVars, guiVars, threadVars>>

\* a direct call of parse_value(text)
ParseValueCall ==
    /\ pc = "idle" /\ fn = "none"
    /\ \E t \in ValueInputs :
          /\ args' = <<t>>
          /\ ret' = parse_value(t, clock)
    /\ fn' = "parse_value"
    /\ UNCHANGED <<clock, callVars, guiVars, threadVars>>

\* add_values(r, d) for the datetime r that parse_datetime returned
AddParsed ==
    /\ fn = "parse_datetime"
    /\ IsDatetime(ret)
    /\ \E d \in ShortDurations :
          /\ args' = <<args[1], d>>
          /\ ret' = add_values(ret, d)
    /\ fn' = "parse_datetime, add_values"
    /\ UNCHANGED <<clock, callVars, guiVars, threadVars>>

\* the parsers called one at a time, each with a text of its own
ParserNext ==
    \/ TokenizeCall
    \/ ParseDurationCall
    \/ ParseDatetimeCall
    \/ ParseValueCall
    \/ AddParsed
    \/ Discard

ParserSpec == Init /\ [][ParserNext]_vars

(***************************************************************************)
(* calculate: the main window evaluates the text of its input area         *)
(***************************************************************************)
\* what the input area may hold when calculate is called: nothing, blanks,
\* expressions that evaluate and expressions that raise
GuiInputs ==
    {<<"\n">>,
     <<" ", "\n">>,
     <<"3", "d", " ", "+", " ", "1", "h", "\n">>,
     <<"2", "0", "2", "5", "-", "0", "8", "-", "1", "9", " ", "-", " ", "3", "d", "\n">>,
     <<"2", "h", "3", "0", "m", " ", "@", " ", "1", ".", "5", "M", "B", " ", "-", ">", " ", "1", "0", "K", "B", "\n">>,
     <<"p", "r", "o", "g", "r", "e", "s", "s", "(", "7", "s", ",", " ", "5", "0", "%", ")", "\n">>,
     <<"3", "d", "\n">>,
     <<"3", " ", "*", " ", "2", "\n">>,
     <<"3", "d", " ", "+", " ", "x", "x", "\n">>,
     <<"0", "s", " ", "@", " ", "1", ".", "5", "M", "B", " ", "-", ">", " ", "1", "0", "K", "B", "\n">>}

\* display_results(expression, result): the results area is emptied and
\* filled with the header of the expression and the section of the result
display_results(e, r) ==
    [kind |-> "results",
     calculation |-> e,
     section |-> IF r.kind = "data_rate" THEN "display_data_rate_result"
                 ELSE IF IsTimedelta(r) THEN "display_duration_result"
                 ELSE "display_datetime_result",
     result |-> r]

\* calculate() up to its call of parse_and_calculate
Calculate ==
    /\ pc = "idle" /\ fn = "none"
    /\ \E text \in GuiInputs :
          IF Strip(text) = <<>>
          THEN /\ status_var' = [kind |-> "warning", msg |-> "Please enter a calculation"]
               /\ UNCHANGED <<pc, input, expression>>
          ELSE /\ status_var' = [kind |-> "calculating"]
               /\ pc' = "now"
               /\ input' = Strip(text)
               /\ expression' = Clean(Strip(text))
    /\ UNCHANGED <<clock, tokens, i, result, samples, outcome, prev, directVars,
                   results_text, messagebox, threadVars>>

\* calculate() with the results area emptied before the error is shown
CalculateReturn_results_cleared ==
    /\ pc = "done"
    /\ IF IsError(outcome)
       THEN /\ status_var' = [kind |-> "error", msg |-> outcome.msg]
            /\ messagebox' = [kind |-> "showerror", title |-> "Calculation Error",
                               msg |-> outcome.msg]
            /\ results_text' = [kind |-> "empty"]
       ELSE /\ results_text' = display_results(input, outcome)
            /\ status_var' = [kind |-> "completed"]
            /\ UNCHANGED messagebox
    /\ pc' = "idle"
    /\ input' = <<>>
    /\ expression' = <<>>
    /\ tokens' = <<>>
    /\ i' = 0
    /\ result' = NoValue
    /\ samples' = <<>>
    /\ outcome' = NoValue
    /\ UNCHANGED <<clock, prev, directVars, threadVars>>

\* calculate() after parse_and_calculate returned or raised: display_results
\* and the status of completion, or the except branch
CalculateReturn ==
    /\ pc = "done"
    /\ IF IsError(outcome)
       THEN /\ status_var' = [kind |-> "error", msg |-> outcome.msg]
            /\ messagebox' = [kind |-> "showerror", title |-> "Calculation Error",
                               msg |-> outcome.msg]
            /\ UNCHANGED results_text
       ELSE /\ results_text' = display_results(input, outcome)
            /\ status_var' = [kind |-> "completed"]
            /\ UNCHANGED messagebox
    /\ pc' = "idle"
    /\ input' = <<>>
    /\ expression' = <<>>
    /\ tokens' = <<>>
    /\ i' = 0
    /\ result' = NoValue
    /\ samples' = <<>>
    /\ outcome' = NoValue
    /\ UNCHANGED <<clock, prev, directVars, threadVars>>

GuiNext ==
    \/ Calculate
    \/ Steps
    \/ CalculateReturn

GuiSpec == Init /\ [][GuiNext]_vars

(***************************************************************************)
(* Two threads: the main window and the menu of the tray icon              *)
(***************************************************************************)
\* the expressions the two threads call parse_and_calculate with
ConcurrentInputs ==
    {<<"2", " ", "*", " ", "3", "d", " ", "-", " ", "1", "h">>,
     <<"n", "o", "w", " ", "+", " ", "1", "h">>,
     <<"p", "r", "o", "g", "r", "e", "s", "s", "(", "7", "s", ",", " ", "5", "0", "%", ",", " ", "e", "t", "a", ")">>,
     <<"3", "d", " ", "+", " ", "x", "x">>}

\* the call of the main thread (calculate)
MainCall ==
    /\ thread = "main"
    /\ CallOf(ConcurrentInputs)

\* the call of the thread of the tray icon (calc of quick_calculate)
QuickCall ==
    /\ thread = "tray"
    /\ CallOf(ConcurrentInputs)

\* the threads with the running result kept in one place for both
Switch_shared_result ==
    /\ fn = "none"
    /\ thread' = IF thread = "main" THEN "tray" ELSE "main"
    /\ other' = [pc |-> pc, input |-> input, expression |-> expression, tokens |-> tokens,
                 i |-> i, result |-> result, samples |-> samples, outcome |-> outcome,
                 alone |-> alone /\ pc = "idle"]
    /\ pc' = other.pc
    /\ input' = other.input
    /\ expression' = other.expression
    /\ tokens' = other.tokens
    /\ i' = other.i
    /\ result' = result
    /\ samples' = other.samples
    /\ outcome' = other.outcome
    /\ alone' = other.alone
    /\ UNCHANGED <<clock, prev, directVars, guiVars>>

\* the interpreter leaves the running thread between two statements and
\* resumes the other one: each thread has the arguments and the local
\* variables of its own call, and a call that is left before it has
\* returned no longer runs alone
Switch ==
    /\ fn = "none"
    /\ thread' = IF thread = "main" THEN "tray" ELSE "main"
    /\ other' = [pc |-> pc, input |-> input, expression |-> expression, tokens |-> tokens,
                 i |-> i, result |-> result, samples |-> samples, outcome |-> outcome,
                 alone |-> alone /\ pc = "idle"]
    /\ pc' = other.pc
    /\ input' = other.input
    /\ expression' = other.expression
    /\ tokens' = other.tokens
    /\ i' = other.i
    /\ result' = other.result
    /\ samples' = other.samples
    /\ outcome' = other.outcome
    /\ alone' = other.alone
    /\ UNCHANGED <<clock, prev, directVars, guiVars>>

\* the running thread's call returns or raises to its caller; what a call
\* that ran alone returned is kept beside its expression and clock readings
ReturnToCaller ==
    /\ pc = "done"
    /\ prev' = IF alone
               THEN [input |-> input, outcome |-> outcome, samples |-> samples]
               ELSE prev
    /\ pc' = "idle"
    /\ input' = <<>>
    /\ expression' = <<>>
    /\ tokens' = <<>>
    /\ i' = 0
    /\ result' = NoValue
    /\ samples' = <<>>
    /\ outcome' = NoValue
    /\ alone' = TRUE
    /\ UNCHANGED <<clock, directVars, guiVars, thread, other>>

ConcurrentNext ==
    \/ MainCall
    \/ QuickCall
    \/ Steps
    \/ Switch
    \/ ReturnToCaller
    \/ Tick

ConcurrentSpec == Init /\ [][ConcurrentNext]_vars

(***************************************************************************)
(* Properties of evaluate_tokens                                           *)
(***************************************************************************)
\* the pairs (operator, operand) from the k-th token on, applied in order to acc
RECURSIVE FoldPairs(_, _, _, _)
FoldPairs(toks, k, acc, now) ==
    IF IsError(acc) \/ k + 1 > Len(toks) THEN acc
    ELSE FoldPairs(toks, k + 2, ApplyParsed(toks[k], acc, parse_value(toks[k + 1], now)), now)

\* the strict left fold of a token list: the value of operand0, then every pair
LeftFold(toks, now) ==
    FoldPairs(toks, 2,
              IF is_number(toks[1]) /\ toks[2] = <<"*">> THEN FloatOf(toks[1])
              ELSE parse_value(toks[1], now),
              now)

\* C1: what evaluate_tokens returns for a token list operand0 op1 operand1 ...
\* opN operandN is the strict left fold of the list: every pair (op_i,
\* operand_i) is applied in order, whatever the types of operand0 and operand1.
C1_StrictLeftFold ==
    (pc = "done" /\ Len(tokens) >= 3) => outcome = LeftFold(tokens, clock)

(***************************************************************************)
(* Properties of the sugar forms                                           *)
(***************************************************************************)
\* the duration-like spans among the texts the sugar forms are called with
DurationLike == SugarDurations \ {T_duration_pattern}

\* two calls end alike: with the same value, or both with an error
SameOutcome(x, y) == IF IsError(x) THEN IsError(y) ELSE x = y

\* C2: for a duration-like span D and a percent literal P, the call of D@P%
\* returns, or raises, what the call of progress(D, P%) before it did.
C2_AtFormLikeProgress ==
    pc = "done" =>
        \A d \in DurationLike, p \in SugarPercents :
            (input = AtText(d, p) /\ prev.input = ProgressText(d, p, <<>>))
                => SameOutcome(prev.outcome, outcome)

\* C3: for a duration-like span D and a percent literal P, the call of
\* P% in D returns, or raises, what the call of progress(D, P%) before it did.
C3_InFormLikeProgress ==
    pc = "done" =>
        \A d \in DurationLike, p \in SugarPercents :
            (input = InText(d, p) /\ prev.input = ProgressText(d, p, <<>>))
                => SameOutcome(prev.outcome, outcome)

(***************************************************************************)
(* Properties of the clock                                                 *)
(***************************************************************************)
\* C4: within one call of parse_and_calculate the clock is sampled once: the
\* instant substituted for `now` and the instant the eta is computed from are
\* the same sample, also when the wall clock advances during the call.
C4_OneClockSample ==
    \A j, k \in 1..Len(samples) : samples[j] = samples[k]

(***************************************************************************)
(* Properties of add_values, subtract_values and multiply_values           *)
(***************************************************************************)
\* C5: the kind of what add_values and subtract_values return follows the
\* type table: datetime + timedelta and timedelta + datetime are datetimes,
\* timedelta + timedelta a timedelta, datetime - datetime a timedelta,
\* datetime - timedelta a datetime, timedelta - timedelta a timedelta; a
\* float on either side, and timedelta - datetime, raise an error, in a
\* direct call and in an expression of two operands alike.
C5_TypeTable ==
    /\ fn = "add_values" =>
          /\ (IsDatetime(args[1]) /\ IsTimedelta(args[2])) => IsDatetime(ret)
          /\ (IsTimedelta(args[1]) /\ IsDatetime(args[2])) => IsDatetime(ret)
          /\ (IsTimedelta(args[1]) /\ IsTimedelta(args[2])) => IsTimedelta(ret)
          /\ (IsFloat(args[1]) \/ IsFloat(args[2])) => IsError(ret)
    /\ fn = "subtract_values" =>
          /\ (IsDatetime(args[1]) /\ IsDatetime(args[2])) => IsTimedelta(ret)
          /\ (IsDatetime(args[1]) /\ IsTimedelta(args[2])) => IsDatetime(ret)
          /\ (IsTimedelta(args[1]) /\ IsTimedelta(args[2])) => IsTimedelta(ret)
          /\ (IsTimedelta(args[1]) /\ IsDatetime(args[2])) => IsError(ret)
          /\ (IsFloat(args[1]) \/ IsFloat(args[2])) => IsError(ret)
    /\ (pc = "done" /\ Len(tokens) = 3 /\ tokens[2] \in {<<"+">>, <<"-">>}
        /\ (is_number(tokens[1]) \/ is_number(tokens[3])))
          => IsError(outcome)

\* a timedelta minus a datetime was asked for, and an error raised
C5_Witness ==
    /\ fn = "subtract_values"
    /\ IsTimedelta(args[1]) /\ IsDatetime(args[2])
    /\ IsError(ret)

\* the time of day of a datetime, as a timedelta since midnight
TimeOfDay(a) == timedelta(0, a.s, a.us)

\* C6: add_values of two datetimes: if either carries the date 1900-01-01 the
\* result is the other one plus the time of day of that one, and the two
\* orders give the same datetime; if neither does, the result is
\* a + (b - 1900-01-01 00:00:00).
C6_AddInstants ==
    (fn = "add_values" /\ IsDatetime(args[1]) /\ IsDatetime(args[2])) =>
        /\ args[2].d = 0 => ret = DatetimePlus(args[1], TimeOfDay(args[2]))
        /\ args[1].d = 0 => ret = DatetimePlus(args[2], TimeOfDay(args[1]))
        /\ (args[1].d = 0 \/ args[2].d = 0) => ret = add_values(args[2], args[1])
        /\ (args[1].d # 0 /\ args[2].d # 0)
              => ret = DatetimePlus(args[1], timedelta(args[2].d, args[2].s, args[2].us))

\* a time-only datetime came first and a dated one second
C6_Witness ==
    /\ fn = "add_values"
    /\ IsDatetime(args[1]) /\ args[1].d = 0 /\ args[1].s > 0
    /\ IsDatetime(args[2]) /\ args[2].d # 0
    /\ ret = DatetimePlus(args[2], TimeOfDay(args[1]))

\* C7: subtract_values of a dated datetime a and a time-only datetime b takes b
\* for a duration since midnight and does not return the calendar distance
\* between a and 1900-01-01 at the time of day of b.
C7_NoDistanceTo1900 ==
    (fn = "subtract_values" /\ IsDatetime(args[1]) /\ IsDatetime(args[2])
     /\ args[1].d # 0 /\ args[2].d = 0)
        => ~(IsTimedelta(ret)
             /\ TimedeltaPlus(ret, TimeOfDay(args[2]))
                    = timedelta(args[1].d, args[1].s, args[1].us))

\* n times the timedelta t, for an integer n
Scaled(t, n) ==
    timedelta(t.d * n, t.s * n + ((t.us \div 1000) * n) \div 1000,
              (((t.us \div 1000) * n) % 1000) * 1000 + (t.us % 1000) * n)

\* r is the timedelta of d * num / den seconds: no timedelta is nearer to the
\* product, the two differing by half a microsecond at most (and by nothing
\* when the product is a whole number of microseconds)
IsProduct(r, d, num, den) ==
    \/ TimedeltaMinus(Scaled(r, den), Scaled(d, num)).d = 0
       /\ TimedeltaMinus(Scaled(r, den), Scaled(d, num)).s = 0
       /\ 2 * TimedeltaMinus(Scaled(r, den), Scaled(d, num)).us <= den
    \/ TimedeltaMinus(Scaled(d, num), Scaled(r, den)).d = 0
       /\ TimedeltaMinus(Scaled(d, num), Scaled(r, den)).s = 0
       /\ 2 * TimedeltaMinus(Scaled(d, num), Scaled(r, den)).us <= den

C9_RoundTrip ==
    /\ (fn = "add_values, subtract_values" /\ IsDatetime(args[1]) /\ IsTimedelta(args[2]))
          => ret = args[1]
    /\ (pc = "done" /\ Len(tokens) = 5 /\ tokens[2] = <<"+">> /\ tokens[4] = <<"-">>
        /\ tokens[3] = tokens[5])
          => ((IsDatetime(parse_value(tokens[1], clock))
               /\ IsTimedelta(parse_value(tokens[3], clock)))
                 => outcome = parse_value(tokens[1], clock))

\* the expression 2:56am + 3d - 3d was evaluated
C9_Witness ==
    /\ pc = "done"
    /\ tokens = <<<<"2", ":", "5", "6", "a", "m">>, <<"+">>, <<"3", "d">>, <<"-">>, <<"3", "d">>>>
    /\ outcome = MakeDatetime(1900, 1, 1, 2, 56, 0, 0)

(***************************************************************************)
(* Properties of calculate_progress                                        *)
(***************************************************************************)
\* what progress(duration, percent[, mode]) is to return, for the float pct
\* of the percent and the elapsed timedelta of the duration
ProgressAsStated(mode, pct, elapsed) ==
    IF ~(0 < pct.num /\ pct.num < 100 * pct.den)
    THEN outcome = ValueError("Percentage must be between 0 and 100")
    ELSE IF IsError(elapsed) THEN IsError(outcome)
    ELSE IF mode \in {<<>>, <<"t", "o", "t", "a", "l">>}
    THEN IsTimedelta(outcome) /\ IsProduct(outcome, elapsed, 100 * pct.den, pct.num)
    ELSE IF mode = <<"r", "e", "m", "a", "i", "n", "i", "n", "g">>
    THEN IsTimedelta(outcome)
         /\ IsProduct(outcome, elapsed, 100 * pct.den - pct.num, pct.num)
    ELSE IF mode = <<"e", "t", "a">>
    THEN /\ IsDatetime(outcome)
         /\ samples # <<>>
         /\ IsProduct(DatetimeDiff(outcome, samples[Len(samples)]), elapsed,
                      100 * pct.den - pct.num, pct.num)
    ELSE outcome = ValueError("Invalid mode")

\* C10: progress(duration, percent[, mode]) returns a value only when
\* 0 < percent < 100, and raises the error of the percentage before it parses
\* the duration otherwise; with elapsed the parsed duration, mode total (the
\* default) returns the timedelta of elapsed * 100 / percent seconds, mode
\* remaining that of total - elapsed, mode eta the clock's datetime plus the
\* remaining, the mode in any case of letters, and another mode is an error.
C10_Progress ==
    pc = "done" =>
        \A d \in ProgressDurations, p \in ProgressPercents, m \in ProgressModes :
            input = ProgressText(d, p, m)
                => ProgressAsStated(Lower(m), Decimal(p), parse_duration(d))

\* progress(1h15s, 50.5%, ETA) returned a datetime
C10_Witness ==
    /\ pc = "done"
    /\ input = ProgressText(<<"1", "h", "1", "5", "s">>, <<"5", "0", ".", "5">>, <<"E", "T", "A">>)
    /\ IsDatetime(outcome)

(***************************************************************************)
(* Properties of the data rate path                                        *)
(***************************************************************************)
\* the number of bytes an amount of the expressions states: the magnitude
\* times a power of 1000 for KB, MB and of 1024 for KiB, MiB; nothing (0) for
\* a text that states no amount
StatedBytes(t) ==
    CASE t = <<"1", ".", "5", "M", "B">> -> float(15 * 1000 * 1000, 10)
      [] t = <<"5", "0", "0", "K", "B">> -> float(500 * 1000, 1)
      [] t = <<"2", "K", "i", "B">> -> float(2 * 1024, 1)
      [] t = <<"1", "0", "2", "4", " ", "b">> -> float(1024, 1)
      [] t = <<"1", "0", "K", "B">> -> float(10 * 1000, 1)
      [] t = <<"2", "M", "i", "B">> -> float(2 * 1024 * 1024, 1)
      [] t = <<"3", " ", "k", "b">> -> float(3 * 1000, 1)
      [] OTHER -> float(0, 1)

\* the timedelta t is longer than nothing
IsPositive(t) == t.d > 0 \/ (t.d = 0 /\ (t.s > 0 \/ t.us > 0))

\* what E @ A -> T is to return, for the parsed elapsed time and the bytes
\* that A and T state
RateAsStated(elapsed, transferred, target) ==
    IF IsError(elapsed) \/ ~IsPositive(elapsed) \/ transferred.num = 0 \/ target.num = 0
    THEN IsError(outcome)
    ELSE /\ outcome.kind = "data_rate"
         /\ outcome.elapsed_time = elapsed
         /\ outcome.data_amount = transferred
         /\ outcome.total_data = target
         \* transfer_rate * elapsed_seconds = transferred
         /\ outcome.transfer_rate.num * total_seconds(elapsed).num * transferred.den
                = transferred.num * outcome.transfer_rate.den * total_seconds(elapsed).den
         \* total_time = elapsed * target / transferred
         /\ IsProduct(outcome.total_time, elapsed,
                      FloatOver(target, transferred).num, FloatOver(target, transferred).den)

\* C11: an expression E @ A -> T is evaluated by the rate path and by nothing
\* else; it returns a rate result only when the elapsed time, the transferred
\* amount and the target amount are all parsed and positive, and an error
\* otherwise; in the result transfer_rate is transferred bytes per elapsed
\* second, total_time is elapsed * target / transferred, KB and MB count in
\* thousands and KiB and MiB in 1024s, and the three inputs are carried as parsed.
C11_Rate ==
    /\ (pc = "done" /\ input \in RateInputs) =>
          /\ tokens = <<>>
          /\ outcome.kind = "data_rate"
                \/ outcome = ValueError("Data rate calculation error")
    /\ pc = "done" =>
          \A e \in RateElapsed, a \in RateAmounts, t \in RateTargets :
              input = RateText(e, a, t)
                  => RateAsStated(parse_duration(e), StatedBytes(a), StatedBytes(t))

\* 1.5s @ 2KiB -> 2MiB returned 1024 times the elapsed time
C11_Witness ==
    /\ pc = "done"
    /\ input = RateText(<<"1", ".", "5", "s">>, <<"2", "K", "i", "B">>, <<"2", "M", "i", "B">>)
    /\ outcome.kind = "data_rate"
    /\ outcome.total_time = timedelta(0, 1536, 0)
    /\ outcome.data_amount = float(2048, 1)

(***************************************************************************)
(* Properties of tokenize                                                  *)
(***************************************************************************)
\* the parentheses open at position p of e
Depth(e, p) ==
    Cardinality({k \in 1..(p - 1) : e[k] = "("}) - Cardinality({k \in 1..(p - 1) : e[k] = ")"})

\* the operand text accumulated when the scan reaches position p: what
\* follows the last operator before p
Accumulated(e, p, ops) == SubSeq(e, Max({m \in ops : m < p} \cup {0}) + 1, p - 1)

\* the character at p is a hyphen right after four digits, or right after
\* four digits, a hyphen and two digits
YearRule(e, p) ==
    /\ e[p] = "-"
    /\ \/ p > 4 /\ \A k \in (p - 4)..(p - 1) : e[k] \in Digits
       \/ /\ p > 7 /\ e[p - 3] = "-"
          /\ \A k \in ((p - 7)..(p - 4)) \cup ((p - 2)..(p - 1)) : e[k] \in Digits

\* whitespace right before or right after position p
AdjacentSpace(e, p) ==
    \/ p > 1 /\ e[p - 1] \in Whitespace
    \/ p < Len(e) /\ e[p + 1] \in Whitespace

\* C12: in tokenize, a + or - outside parentheses that the year rule does
\* not cover is taken for an operator if and only if the operand text
\* accumulated so far is a complete instant or there is whitespace right
\* before or right after the character; otherwise it stays in the operand.
\* (Stated of the characters that have operand text before them: an
\* operator with nothing before it has no left operand in any reading.)
C12_OperatorRule ==
    fn = "tokenize" =>
        \A p \in 1..Len(args[1]) :
            (/\ args[1][p] \in {"+", "-"} /\ Depth(args[1], p) = 0 /\ ~YearRule(args[1], p)
             /\ Strip(Accumulated(args[1], p, ret.operators)) # <<>>)
                => (p \in ret.operators
                      <=> \/ looks_like_datetime(Strip(Accumulated(args[1], p, ret.operators)))
                          \/ AdjacentSpace(args[1], p))

\* \d{4}-\d{2}-\d{2}: a date with the year first
YearFirstDateRe ==
    Cat(<<Rep(Digit, 4, 4), Chr({"-"}), Rep(Digit, 2, 2), Chr({"-"}), Rep(Digit, 2, 2)>>)

\* how many dates the text s holds, and the tokens from the k-th on hold
DateCount(s) == Len(FindAll(YearFirstDateRe, s, 1))

RECURSIVE DatesIn(_, _)
DatesIn(toks, k) == IF k > Len(toks) THEN 0 ELSE DateCount(toks[k]) + DatesIn(toks, k + 1)

DateOperands ==
    {<<"2", "0", "2", "5", "-", "0", "8", "-", "1", "9">>,
     <<"2", "0", "2", "5", "-", "0", "8", "-", "1", "9", " ", "1", "7", ":", "0", "0">>}

\* C13: tokenize takes no hyphen for an operator that comes right after four
\* digits or after a YYYY-MM span, so every YYYY-MM-DD date of the expression
\* lies whole inside one token; and a + or - that follows a date or a date
\* with a time, spaced or not, is an operator.
C13_DatesKeptWhole ==
    fn = "tokenize" =>
        /\ \A p \in ret.operators : ~YearRule(args[1], p)
        /\ DatesIn(ret.tokens, 1) = DateCount(args[1])
        /\ \A a \in DateOperands, x \in BOOLEAN, op \in {"+", "-"}, y \in BOOLEAN,
              b \in TokenOperands :
                args[1] = Spaced(a, x, op, y, b) => ret.tokens = <<a, <<op>>, b>>

\* 3d + 2025-08-19-5m was split into its three operands
C13_Witness ==
    /\ fn = "tokenize"
    /\ args[1] = <<"3", "d", " ", "+", " ", "2", "0", "2", "5", "-", "0", "8", "-", "1", "9", "-", "5", "m">>
    /\ ret.tokens = <<<<"3", "d">>, <<"+">>, <<"2", "0", "2", "5", "-", "0", "8", "-", "1", "9">>,
                      <<"-">>, <<"5", "m">>>>

\* C14: the list tokenize returns alternates: the tokens at the operand
\* positions (the first, the third, ...) are non-empty stripped texts, those
\* at the operator positions are exactly +, - or *, and every operator was
\* appended after operand text of its own, the first token never being one;
\* so no call of parse_and_calculate ends in the error 'Unknown operator'.
C14_TokensAlternate ==
    /\ \A k \in 1..Len(tokens) :
          IF k % 2 = 1 THEN tokens[k] # <<>> /\ Strip(tokens[k]) = tokens[k]
          ELSE tokens[k] \in {<<"+">>, <<"-">>, <<"*">>}
    /\ (tokens # <<>> /\ (pc = "first" \/ (pc = "done" /\ Len(tokens) < 3))
        /\ ~is_progress_function(expression)) =>
          /\ \A p \in OperatorsFrom(expression, 1, <<>>, 0) :
                Strip(Accumulated(expression, p, OperatorsFrom(expression, 1, <<>>, 0))) # <<>>
          /\ Len(tokens) \in {2 * Cardinality(OperatorsFrom(expression, 1, <<>>, 0)),
                              2 * Cardinality(OperatorsFrom(expression, 1, <<>>, 0)) + 1}
    /\ outcome # ValueError("Unknown operator")

\* 3d * * 2 gave the operand 3d, the operator * and the operand `* 2`, which
\* does not parse
C14_Witness ==
    /\ pc = "done"
    /\ tokens = <<<<"3", "d">>, <<"*">>, <<"*", " ", "2">>>>
    /\ IsError(outcome)

(***************************************************************************)
(* Properties of parse_and_calculate                                       *)
(***************************************************************************)
\* C15: a call whose expression is no rate expression and no progress call
\* and gives tokenize fewer than 3 tokens raises the error 'Expression must
\* contain at least one operator': a lone duration, a lone time, a lone
\* number, or operands joined by a character that is no operator, never
\* returns a value.
C15_NeedsOperator ==
    pc = "done" =>
        /\ (/\ ~rate_match(Strip(expression)).ok
            /\ ~is_progress_function(expression)
            /\ Len(tokenize(expression)) < 3)
              => outcome = ValueError("Expression must contain at least one operator")
        /\ input \in LoneInputs
              => IsError(outcome) /\ Len(tokens) < 3
        /\ ~IsError(outcome)
              => \/ outcome.kind = "data_rate"
                 \/ is_progress_function(expression)
                 \/ Len(tokens) >= 3

\* 1h / 2 is one token, and an error
C15_Witness ==
    /\ pc = "done"
    /\ tokens = <<<<"1", "h", " ", "/", " ", "2">>>>
    /\ outcome = ValueError("Expression must contain at least one operator")

\* C16: a progress call that is one operand of an arithmetic expression is
\* one token, and its value in the expression is what the progress
\* calculator returns for it: the expression evaluates to the operator
\* applied to that value and to the other operand.
C16_ProgressOperand ==
    pc = "done" =>
        \A f \in ProgressOperands, op \in Operators, b \in PlainOperands :
            /\ input = Join(f, op, b) =>
                  /\ tokens = <<f, <<op>>, b>>
                  /\ SameOutcome(ApplyOperator(<<op>>, calculate_progress(f, clock),
                                               parse_value(b, clock)), outcome)
            /\ input = Join(b, op, f) =>
                  /\ tokens = <<b, <<op>>, f>>
                  /\ SameOutcome(ApplyOperator(<<op>>, parse_value(b, clock),
                                               calculate_progress(f, clock)), outcome)

(***************************************************************************)
(* Properties of parse_duration                                            *)
(***************************************************************************)
\* the seconds of one unit, as stated: s, m, h, d, w = 7 d, mo = 30.44 d,
\* y = 365.25 d
UnitSeconds(u) ==
    CASE u = <<"s">> -> 1
      [] u = <<"m">> -> 60
      [] u = <<"h">> -> 3600
      [] u = <<"d">> -> 86400
      [] u = <<"w">> -> 7 * 86400
      [] u = <<"m", "o">> -> 3044 * 864
      [] u = <<"y">> -> 36525 * 864

\* twice the seconds of the pair of the magnitude m and the unit u (the
\* magnitudes are whole numbers and halves)
HalfSeconds(m, u) == ((2 * Decimal(m).num) \div Decimal(m).den) * UnitSeconds(u)

\* the timedelta r is n half seconds long
IsHalfSeconds(r, n) ==
    /\ IsTimedelta(r)
    /\ r.us \in {0, 500000}
    /\ 2 * (r.d * SecondsPerDay + r.s) + r.us \div 500000 = n

\* C17: parse_duration returns the sum of the pairs (magnitude, suffix) of the
\* text, each counted once with the seconds stated for its unit and in
\* whichever order they stand (Nmo is N months and no minutes); a lone
\* <number>h gives what the general rule gives; a text without a pair raises
\* an error.
C17_DurationSum ==
    fn = "parse_duration" =>
        /\ \A m \in Magnitudes, u \in Suffixes :
              args[1] = m \o u =>
                  /\ IsHalfSeconds(ret, HalfSeconds(m, u))
                  /\ u = <<"h">> => ret = SumUnits(args[1], 1)
        /\ \A m1, m2 \in Magnitudes, u1, u2 \in Suffixes :
              args[1] = m1 \o u1 \o m2 \o u2 =>
                  /\ IsHalfSeconds(ret, HalfSeconds(m1, u1) + HalfSeconds(m2, u2))
                  /\ ret = parse_duration(m2 \o u2 \o m1 \o u1)
        /\ args[1] \in NoPairTexts => IsError(ret)

\* 2.5mo10m is two and a half months and ten minutes
C17_Witness ==
    /\ fn = "parse_duration"
    /\ args[1] = <<"2", ".", "5", "m", "o", "1", "0", "m">>
    /\ ret = timedelta(76, 8640 + 600, 0)

(***************************************************************************)
(* Properties of parse_datetime                                            *)
(***************************************************************************)
\* the hour of the day of the hour h written with the meridiem mer
HourOfDay(h, mer) ==
    IF mer = <<>> THEN h
    ELSE IF ToLowerChar(Strip(mer)[1]) = "a" THEN (IF h = 12 THEN 0 ELSE h)
    ELSE (IF h = 12 THEN 12 ELSE h + 12)

\* the clock literal is out of bounds
OutOfBounds(h, m, sec, mer) ==
    \/ m >= 60
    \/ sec >= 60
    \/ mer # <<>> /\ ~(1 <= h /\ h <= 12)
    \/ mer = <<>> /\ h >= 24

\* C18: parse_datetime of a clock literal H:MM[:SS] with or without a
\* meridiem (am, pm, a, p, attached or after a space, in either case) raises
\* an error when the minutes or the seconds are 60 or more, when the hour is
\* outside 1..12 with a meridiem or is 24 or more without one; otherwise it
\* returns that time of day, 12 am being hour 0, 12 pm hour 12, another hour
\* of pm that hour plus 12.
C18_ClockLiteral ==
    fn = "parse_datetime" =>
        \A h \in ClockHours, m \in ClockMinutes, sec \in ClockSeconds, mer \in Meridiems :
            args[1] = ClockText(h, m, sec, mer) =>
                IF OutOfBounds(DigitsVal(h), DigitsVal(m), DigitsVal(sec), mer)
                THEN IsError(ret)
                ELSE /\ IsDatetime(ret)
                     /\ ret.s = HourOfDay(DigitsVal(h), mer) * 3600 + DigitsVal(m) * 60
                                   + DigitsVal(sec)
                     /\ ret.us = 0

\* 12:30:59am is 00:30:59
C18_Witness ==
    /\ fn = "parse_datetime"
    /\ args[1] = <<"1", "2", ":", "3", "0", ":", "5", "9", "a", "m">>
    /\ ret = MakeDatetime(1900, 1, 1, 0, 30, 59, 0)

\* the text holds no date: no hyphen and no slash
TimeOnly(t) == \A k \in 1..Len(t) : t[k] \notin {"-", "/"}

\* C19: a datetime that parse_datetime returns for a text with a time and no
\* date is on the date 1900-01-01, one it returns for a date without a time
\* is at 00:00:00 of that date, and add_values of a time-only datetime and a
\* timedelta shorter than the time left until midnight is on 1900-01-01 too,
\* that much later.
C19_SentinelDate ==
    /\ (fn = "parse_datetime" /\ IsDatetime(ret)) =>
          /\ TimeOnly(args[1]) => ret.d = Sentinel.d
          /\ args[1] \in DateOnlyTexts =>
                ret.s = 0 /\ ret.us = 0 /\ ret.d \in {45886, 45349}
    /\ (/\ fn = "parse_datetime, add_values" /\ TimeOnly(args[1])
        /\ args[2].d = 0
        /\ parse_datetime(args[1]).s + args[2].s < SecondsPerDay) =>
          /\ IsDatetime(ret)
          /\ ret.d = Sentinel.d
          /\ ret.s = parse_datetime(args[1]).s + args[2].s

\* 1:02:05.5pm, parsed by the decimal patterns, plus 3.5 hours
C19_Witness ==
    /\ fn = "parse_datetime, add_values"
    /\ args = <<<<"1", ":", "0", "2", ":", "0", "5", ".", "5", "p", "m">>, timedelta(0, 12600, 0)>>
    /\ ret = MakeDatetime(1900, 1, 1, 16, 32, 5, 500000)

(***************************************************************************)
(* Properties of the outcome of parse_and_calculate                        *)
(***************************************************************************)
\* C20: a call of parse_and_calculate has no outcome before it ends and one
\* outcome when it ends, either a raised error or a returned value; the
\* returned value is a datetime, a timedelta or the record of the rate path
\* and never a float, so never a byte count: the floats of parse_data_amount
\* are the fields data_amount and total_data of that record, and a data
\* amount where an operand is expected is an error or is read as a duration.
C20_OneOutcome ==
    /\ pc # "done" <=> outcome = NoValue
    /\ pc = "done" =>
          /\ outcome.kind \in {"error", "datetime", "timedelta", "data_rate"}
          /\ outcome.kind = "data_rate" =>
                /\ rate_match(Strip(input)).ok
                /\ outcome.data_amount = parse_data_amount(rate_match(Strip(input)).g2)
                /\ outcome.total_data = parse_data_amount(rate_match(Strip(input)).g3)
                /\ IsTimedelta(outcome.total_time)
          /\ input \in DataInputs => outcome.kind \in {"error", "timedelta"}

\* 1.5s @ 2KiB -> 2MiB is a rate record that holds the two byte counts
C20_Witness ==
    /\ pc = "done"
    /\ input = RateText(<<"1", ".", "5", "s">>, <<"2", "K", "i", "B">>, <<"2", "M", "i", "B">>)
    /\ outcome.kind = "data_rate"
    /\ outcome.data_amount = float(2048, 1)
    /\ outcome.total_data = float(2097152, 1)

(***************************************************************************)
(* Properties of the walk of evaluate_tokens                               *)
(***************************************************************************)
\* C23: evaluate_tokens of a token list of even length 2k, k >= 2, makes at
\* most k - 1 passes of its loop and ends as it ends on the first 2k - 1
\* tokens: the call of an expression followed by an operator without an
\* operand returns, or raises, what the call of the expression before it did.
C23_DanglingOperator ==
    (Len(tokens) >= 4 /\ Len(tokens) % 2 = 0) =>
        /\ pc \in {"loop", "done"} => i <= Len(tokens) - 1
        /\ pc = "done" =>
              \A b \in DanglingBases, op \in Operators :
                  (input = Dangling(b, op) /\ prev.input = b)
                      => /\ outcome = prev.outcome
                         /\ tokens = Append(tokenize(b), <<op>>)

\* 3d + 1h - 5m + after 3d + 1h - 5m: two passes for six tokens
C23_Witness ==
    /\ pc = "done"
    /\ prev.input = <<"3", "d", " ", "+", " ", "1", "h", " ", "-", " ", "5", "m">>
    /\ input = Dangling(prev.input, "+")
    /\ Len(tokens) = 6
    /\ i = 5
    /\ outcome = timedelta(3, 3300, 0)
    /\ prev.outcome = outcome

(***************************************************************************)
(* Properties of the text parse_duration passes over                       *)
(***************************************************************************)
\* C24: parse_duration of a text that holds a pair (number, unit) returns the
\* sum of its pairs whatever stands around them: a sign before the pair, a
\* number without a unit or other text after it raise no error and leave
\* the sum as it is; so no timedelta that parse_duration, or parse_value,
\* returns is negative, and the token -1h, which tokenize leaves whole after
\* an operator, is the duration of one hour.
C24_StrayTextIgnored ==
    /\ fn = "parse_duration" =>
          /\ \A h \in StrayHeads, t \in StrayTails, m \in Magnitudes, u \in Suffixes :
                args[1] = h \o m \o u \o t => IsHalfSeconds(ret, HalfSeconds(m, u))
          /\ args[1] = <<"3", "d", "-", "1", "h">> => ret = timedelta(3, 3600, 0)
          /\ args[1] = <<"-", "1", "h", "1", "5", "s", " ", "7">> => ret = timedelta(0, 3615, 0)
          /\ IsTimedelta(ret) => ret.d >= 0
    /\ fn = "parse_value" =>
          /\ \A h \in {<<"-">>, <<"+">>}, m \in Magnitudes, u \in Suffixes :
                args[1] = h \o m \o u => IsHalfSeconds(ret, HalfSeconds(m, u))
          /\ IsTimedelta(ret) => ret.d >= 0
    /\ (fn = "tokenize" /\ args[1] = <<"3", "d", " ", "+", " ", "-", "1", "h">>) =>
          ret.tokens = <<<<"3", "d">>, <<"+">>, <<"-", "1", "h">>>>

\* -2.5h 15 is two and a half hours
C24_Witness ==
    /\ fn = "parse_duration"
    /\ args[1] = <<"-", "2", ".", "5", "h", " ", "1", "5">>
    /\ ret = timedelta(0, 9000, 0)

(***************************************************************************)
(* Properties of the kind of what is returned                              *)
(***************************************************************************)
\* C25: add_values, subtract_values and multiply_values raise an error or
\* return a datetime or a timedelta, never a float; a call of
\* parse_and_calculate that reaches evaluate_tokens and returns has made a pass of
\* the loop or the addition of the duration + datetime form, the running
\* result after a pass is a datetime or a timedelta, and so what the call
\* returns is a datetime, a timedelta or the rate record; an expression
\* whose operands are all numbers raises an error.
C25_NoBareScalar ==
    /\ fn \in {"add_values", "subtract_values", "multiply_values"} =>
          ret.kind \in {"error", "datetime", "timedelta"}
    /\ (pc = "loop" /\ i >= 3) => result.kind \in {"datetime", "timedelta"}
    /\ (pc = "done" /\ ~IsError(outcome)) =>
          /\ ~IsFloat(outcome)
          /\ outcome.kind \in {"datetime", "timedelta", "data_rate"}
          /\ Len(tokens) >= 3 =>
                \/ i >= 3 /\ result = outcome
                \/ i = 1 /\ tokens[2] = <<"+">> /\ IsDatetime(outcome)
    /\ pc = "done" =>
          \A a, b \in NumberTexts, op \in Operators :
              input = Join(a, op, b) => IsError(outcome)

\* 3 * 2.5 raises an error
C25_Witness ==
    /\ pc = "done"
    /\ input = <<"3", " ", "*", " ", "2", ".", "5">>
    /\ tokens = <<<<"3">>, <<"*">>, <<"2", ".", "5">>>>
    /\ IsFloat(result)
    /\ IsError(outcome)

(***************************************************************************)
(* Properties of calculate                                                 *)
(***************************************************************************)
\* C22: when parse_and_calculate raised for the text calculate read, the
\* status bar and the error dialog show the message of the error that was
\* raised and the results area is left as it was: display_results is not
\* called, and the area shows the welcome text or the results of the last
\* expression that evaluated.
C22_ErrorKeepsResults ==
    [][(pc = "done" /\ IsError(outcome) /\ pc' = "idle") =>
          /\ results_text' = results_text
          /\ results_text = Welcome \/ ~IsError(results_text.result)
          /\ status_var'.kind = "error" /\ status_var'.msg = outcome.msg
          /\ messagebox'.kind = "showerror" /\ messagebox'.msg = outcome.msg]_vars

\* 3d + xx was calculated after 3d + 1h: the error is shown and the results
\* of 3d + 1h are still displayed
C22_Witness ==
    /\ pc = "idle"
    /\ status_var = [kind |-> "error", msg |-> "Cannot parse duration"]
    /\ messagebox.msg = "Cannot parse duration"
    /\ results_text = display_results(<<"3", "d", " ", "+", " ", "1", "h">>, timedelta(3, 3600, 0))

(***************************************************************************)
(* Properties of calls from two threads                                    *)
(***************************************************************************)
\* C21: a call of parse_and_calculate that ends while the other thread is
\* anywhere in a call of its own, after any interleaving of the statements
\* of the two, returns or raises what a call of the same expression that ran
\* alone and read the same clock values returned or raised.
C21_CallsIndependent ==
    /\ (pc = "done" /\ prev.input = input /\ prev.samples = samples)
          => outcome = prev.outcome
    /\ (other.pc = "done" /\ prev.input = other.input /\ prev.samples = other.samples)
          => other.outcome = prev.outcome

\* now + 1h ended in the thread of the tray after it was left and resumed,
\* the main thread being inside a call, and had been called alone before
C21_Witness ==
    /\ thread = "tray"
    /\ pc = "done"
    /\ ~alone
    /\ input = <<"n", "o", "w", " ", "+", " ", "1", "h">>
    /\ prev.input = input
    /\ prev.samples = samples
    /\ prev.outcome = outcome
    /\ other.pc \in {"first", "loop"}

====
